---- MODULE Spec2Model ----
(***************************************************************************)
(* Verification model of the data transformation core of                   *)
(* Automated-Cost-Modelling: the stockpile smoothing walk                  *)
(* (backend/data_filter.py), the wide-table smoothing driver, the          *)
(* aggregation pipeline and the rate consistency validator                 *)
(* (backend/data_processor.py).                                            *)
(*                                                                         *)
(* Quantities are exact integers (a fixed-point view of the Float64        *)
(* values of the code); rate values are integers in thousandths.  Strings  *)
(* that the code parses or formats (period labels, dates, rates) are       *)
(* tuples of one-character strings so that parsing and formatting are      *)
(* computed, not assumed.                                                  *)
(***************************************************************************)
EXTENDS Integers, Sequences, FiniteSets, TLC

VARIABLES
    pc,               \* position of the running entry point
    monthly_data,     \* _apply_stockpile_smoothing: argument
    threshold,        \* capacity (driver_threshold / threshold)
    source_df,        \* _apply_stockpile_smoothing: parsed and sorted series
    idx,              \* position of iter_rows in source_df
    stockpile,        \* running stockpile balance
    results,          \* list of result dicts built by the walk
    current_date,     \* depletion: date of the last produced period
    iteration_count,  \* depletion: number of synthesized periods
    warned,           \* logger.warning of the iteration limit was emitted
    returned,         \* value returned to the caller ("none" before the return)
    df,               \* smooth_data_with_stockpile: the wide input table
    grouping_cols,    \* names of the grouping columns
    row_idx,          \* smooth_data_with_stockpile: position of the row loop
    all_results,      \* smooth_data_with_stockpile: long list of result dicts
    raised,           \* the exception the entry point raised ("none" if none)
    si_rate_col,      \* name of the rate column, <<>> for None
    validation_result,\* result dict of _validate_rate_consistency, <<>> for None
    df_transformed,   \* aggregate_data: the preprocessed long table
    error_message,    \* the column names listed by a raised ValueError
    target_cols,      \* generate_new_column: names of the operand columns
    new_col_name,     \* generate_new_column: name of the generated column
    operation,        \* generate_new_column: "sum", "multiply", "divide", ...
    cast_df,          \* generate_new_column: the local df after the casts
    rate_str,         \* convert_rate_to_monthly_si: the argument
    parsed,           \* convert_rate_to_monthly_si: <<>> for None, or <<the triple>>
    si,               \* convert_rate_to_monthly_si: <<>>, or <<[value, unit]>>
    transformations,  \* TransformationStage: the list of transformation dicts
    tree,             \* TransformationStage: the rows of the tree view, in order
    transformed_df,   \* TransformationStage: the table with the list applied
    reverted          \* TransformationStage: the failures reported by the last callback

walkLocals == <<monthly_data, source_df, idx, stockpile, results, current_date,
                iteration_count, warned>>

walkVars == <<pc, monthly_data, threshold, source_df, idx, stockpile, results,
              current_date, iteration_count, warned, returned>>

smoothVars == <<df, grouping_cols, row_idx, all_results, raised>>

rateVars == <<si_rate_col, validation_result, df_transformed>>

errVars == <<error_message>>

genVars == <<target_cols, new_col_name, operation, cast_df>>

convVars == <<rate_str, parsed, si>>

transVars == <<transformations, tree, transformed_df, reverted>>

vars == <<walkVars, smoothVars, rateVars, errVars, genVars, convVars, transVars>>

----------------------------------------------------------------------------
(* Bounds of the model                                                     *)

MaxLen == 3        \* longest enumerated reported series
MaxQty == 3        \* largest ordinary reported quantity
MaxCap == 2        \* largest enumerated capacity
MaxRows == 2       \* most rows of an enumerated wide table
MaxRateRows == 3   \* most rows of a table given to the rate validator
MaxAggRows == 2    \* most rows of a long table given to aggregate_data

(* Program constants                                                       *)

DepletionLimit == 120

\* config.RATE_EPSILON = 0.01, in thousandths
RateEpsilon == 10

----------------------------------------------------------------------------
(* Period labels: "%Y-%m" strings as tuples of characters                  *)

DigitChars == <<"0", "1", "2", "3", "4", "5", "6", "7", "8", "9">>

Digit(n) == DigitChars[n + 1]

DigitVal(c) == CHOOSE n \in 0..9 : DigitChars[n + 1] = c

\* date.strftime("%Y-%m"): zero padded, fixed width
Strftime(d) ==
    <<Digit(d[1] \div 1000), Digit((d[1] \div 100) % 10),
      Digit((d[1] \div 10) % 10), Digit(d[1] % 10), "-",
      Digit(d[2] \div 10), Digit(d[2] % 10)>>

\* pl.col("month").str.to_date("%Y-%m"): the first day of the month, as <<year, month>>
StrToDate(s) ==
    <<DigitVal(s[1]) * 1000 + DigitVal(s[2]) * 100 + DigitVal(s[3]) * 10 + DigitVal(s[4]),
      DigitVal(s[6]) * 10 + DigitVal(s[7])>>

\* whether str.to_date("%Y-%m") accepts s: four digits, "-", a month 01..12
ToDateOk(s) ==
    /\ Len(s) = 7
    /\ \A i \in {1, 2, 3, 4, 6, 7} : \E n \in 0..9 : DigitChars[n + 1] = s[i]
    /\ s[5] = "-"
    /\ DigitVal(s[6]) * 10 + DigitVal(s[7]) \in 1..12

\* chronological order of two dates
DateBefore(a, b) == a[1] < b[1] \/ (a[1] = b[1] /\ a[2] < b[2])

AddMonthSameYear(d) == IF d[2] = 12 THEN <<d[1], 1>> ELSE <<d[1], d[2] + 1>>

\* current_date + relativedelta(months=1)
AddMonth(d) == IF d[2] = 12 THEN <<d[1] + 1, 1>> ELSE <<d[1], d[2] + 1>>

RECURSIVE InsertByDate(_, _)
InsertByDate(sorted, row) ==
    IF sorted = <<>> THEN <<row>>
    ELSE IF DateBefore(row.date, Head(sorted).date)
         THEN <<row>> \o sorted
         ELSE <<Head(sorted)>> \o InsertByDate(Tail(sorted), row)

RECURSIVE SortByDate(_)
\* DataFrame.sort("date"): stable ascending sort
SortByDate(rows) ==
    IF rows = <<>> THEN <<>>
    ELSE InsertByDate(SortByDate(SubSeq(rows, 1, Len(rows) - 1)), rows[Len(rows)])

\* pl.DataFrame(monthly_data).with_columns(date).sort("date")
SourceDf(data) ==
    SortByDate([i \in 1..Len(data) |->
        [date |-> StrToDate(data[i].month),
         reported_quantity |-> data[i].reported_quantity]])

RECURSIVE MaxDate(_)
\* source_df["date"].max()
MaxDate(rows) ==
    IF Len(rows) = 1 THEN rows[1].date
    ELSE LET m == MaxDate(Tail(rows))
         IN IF DateBefore(m, rows[1].date) THEN rows[1].date ELSE m

Min(a, b) == IF a <= b THEN a ELSE b

----------------------------------------------------------------------------
(* Strings as tuples of characters, table cells, and tables                *)

\* the characters used by the model, in code point order
Alphabet ==
    <<" ", "-", ".", "/", "0", "1", "2", "3", "4", "5", "6", "7", "8", "9",
      "A", "B", "C", "D", "E", "F", "G", "H", "I", "J", "K", "L", "M", "N", "O",
      "P", "Q", "R", "S", "T", "U", "V", "W", "X", "Y", "Z", "_",
      "a", "b", "c", "d", "e", "f", "g", "h", "i", "j", "k", "l", "m", "n", "o",
      "p", "q", "r", "s", "t", "u", "v", "w", "x", "y", "z">>

CharOrd(c) == CHOOSE n \in 1..Len(Alphabet) : Alphabet[n] = c

RECURSIVE StrLess(_, _)
\* Python's < on str: lexicographic by code point, a proper prefix is smaller
StrLess(a, b) ==
    IF b = <<>> THEN FALSE
    ELSE IF a = <<>> THEN TRUE
    ELSE IF Head(a) = Head(b) THEN StrLess(Tail(a), Tail(b))
    ELSE CharOrd(Head(a)) < CharOrd(Head(b))

RECURSIVE InsertStr(_, _)
InsertStr(sorted, x) ==
    IF sorted = <<>> THEN <<x>>
    ELSE IF StrLess(x, Head(sorted))
         THEN <<x>> \o sorted
         ELSE <<Head(sorted)>> \o InsertStr(Tail(sorted), x)

SortedUnsorted(names) == names

RECURSIVE Sorted(_)
\* sorted(list of str)
Sorted(names) ==
    IF names = <<>> THEN <<>>
    ELSE InsertStr(Sorted(SubSeq(names, 1, Len(names) - 1)), names[Len(names)])

InSeq(x, seq) == \E i \in 1..Len(seq) : seq[i] = x

RECURSIVE Without(_, _)
\* [col for col in seq if col not in excluded]
Without(seq, excluded) ==
    IF seq = <<>> THEN <<>>
    ELSE (IF InSeq(Head(seq), excluded) THEN <<>> ELSE <<Head(seq)>>)
            \o Without(Tail(seq), excluded)

RECURSIVE Distinct(_)
\* the distinct members of a list in order of first appearance
Distinct(seq) ==
    IF seq = <<>> THEN <<>>
    ELSE LET front == Distinct(SubSeq(seq, 1, Len(seq) - 1))
             last == seq[Len(seq)]
         IN IF InSeq(last, front) THEN front ELSE Append(front, last)

\* table cells: a number, a string, or a missing value (None / null)
Num(n) == [t |-> "num", n |-> n, s |-> <<>>]

Str(chars) == [t |-> "str", n |-> 0, s |-> chars]

Null == [t |-> "null", n |-> 0, s |-> <<>>]

\* a table: ordered column names and rows of cells aligned with them
Table(columns, rows) == [columns |-> columns, rows |-> rows]

ColIndex(columns, name) == CHOOSE i \in 1..Len(columns) : columns[i] = name

\* df[col][row_idx]
Cell(table, name, r) == table.rows[r][ColIndex(table.columns, name)]

Height(table) == Len(table.rows)

ColID == <<"I", "D">>

----------------------------------------------------------------------------
(* One observed period of the walk: the if / else of the loop body         *)

ObserveStepLossy(stockpile_start, reported, cap) ==
    IF reported >= cap
    THEN [actual_quantity |-> cap, stockpile_end |-> stockpile_start]
    ELSE LET draw_from_stockpile == Min(cap - reported, stockpile_start)
         IN [actual_quantity |-> reported + draw_from_stockpile,
             stockpile_end |-> stockpile_start - draw_from_stockpile]

ObserveStepOverdraw(stockpile_start, reported, cap) ==
    IF reported >= cap
    THEN [actual_quantity |-> cap, stockpile_end |-> stockpile_start + (reported - cap)]
    ELSE [actual_quantity |-> reported + stockpile_start, stockpile_end |-> 0]

ObserveStepNoFloor(stockpile_start, reported, cap) ==
    IF reported >= cap
    THEN [actual_quantity |-> cap, stockpile_end |-> stockpile_start + (reported - cap)]
    ELSE [actual_quantity |-> cap, stockpile_end |-> stockpile_start - (cap - reported)]

ObserveStepIdle(stockpile_start, reported, cap) ==
    IF reported >= cap
    THEN [actual_quantity |-> cap, stockpile_end |-> stockpile_start + (reported - cap)]
    ELSE [actual_quantity |-> reported, stockpile_end |-> stockpile_start]

ObserveStepUncapped(stockpile_start, reported, cap) ==
    IF reported >= cap
    THEN [actual_quantity |-> cap, stockpile_end |-> stockpile_start + reported]
    ELSE LET draw_from_stockpile == Min(cap - reported, stockpile_start)
         IN [actual_quantity |-> reported + draw_from_stockpile,
             stockpile_end |-> stockpile_start - draw_from_stockpile]

ObserveStep(stockpile_start, reported, cap) ==
    IF reported >= cap
    THEN [actual_quantity |-> cap, stockpile_end |-> stockpile_start + (reported - cap)]
    ELSE LET shortfall == cap - reported
             draw_from_stockpile == Min(shortfall, stockpile_start)
         IN [actual_quantity |-> reported + draw_from_stockpile,
             stockpile_end |-> stockpile_start - draw_from_stockpile]

DrawAmountFull(stock, cap) == cap

\* draw_amount = min(stockpile, threshold)
DrawAmount(stock, cap) == Min(stock, cap)

\* the guard of the depletion loop
DepleteGuardOffByOne(stock, count) == stock > 0 /\ count <= DepletionLimit

DepleteGuard(stock, count) == stock > 0 /\ count < DepletionLimit

----------------------------------------------------------------------------
(* _apply_stockpile_smoothing, one step per loop iteration                 *)

\* if not monthly_data: return [] ; build source_df ; stockpile = 0.0
WalkBegin ==
    /\ pc = "walk_begin"
    /\ IF monthly_data = <<>>
       THEN /\ pc' = "walk_done"
            /\ returned' = <<>>
            /\ UNCHANGED source_df
       ELSE /\ pc' = "walk_observe"
            /\ source_df' = SourceDf(monthly_data)
            /\ UNCHANGED returned
    /\ idx' = 1
    /\ stockpile' = 0
    /\ results' = <<>>
    /\ UNCHANGED <<monthly_data, threshold, current_date, iteration_count, warned>>
    /\ UNCHANGED <<smoothVars, rateVars>>
    /\ UNCHANGED <<errVars, genVars, convVars, transVars>>

\* for row in source_df.iter_rows(named=True): ...
WalkObserve ==
    /\ pc = "walk_observe"
    /\ idx <= Len(source_df)
    /\ LET row == source_df[idx]
           step == ObserveStep(stockpile, row.reported_quantity, threshold)
       IN /\ results' = Append(results,
                 [month |-> Strftime(row.date),
                  reported_quantity |-> row.reported_quantity,
                  actual_quantity |-> step.actual_quantity])
          /\ stockpile' = step.stockpile_end
    /\ idx' = idx + 1
    /\ UNCHANGED <<pc, monthly_data, threshold, source_df, current_date,
                   iteration_count, warned, returned>>
    /\ UNCHANGED <<smoothVars, rateVars>>
    /\ UNCHANGED <<errVars, genVars, convVars, transVars>>

\* end of the for loop; if stockpile > 0: start the depletion
WalkEndObserved ==
    /\ pc = "walk_observe"
    /\ idx > Len(source_df)
    /\ IF stockpile > 0
       THEN /\ pc' = "walk_deplete"
            /\ current_date' = MaxDate(source_df)
            /\ iteration_count' = 0
            /\ UNCHANGED returned
       ELSE /\ pc' = "walk_done"
            /\ returned' = results
            /\ UNCHANGED <<current_date, iteration_count>>
    /\ UNCHANGED <<monthly_data, threshold, source_df, idx, stockpile, results, warned>>
    /\ UNCHANGED <<smoothVars, rateVars>>
    /\ UNCHANGED <<errVars, genVars, convVars, transVars>>

\* while stockpile > 0 and iteration_count < 120: ...
WalkDeplete ==
    /\ pc = "walk_deplete"
    /\ DepleteGuard(stockpile, iteration_count)
    /\ LET next_date == AddMonth(current_date)
           draw_amount == DrawAmount(stockpile, threshold)
       IN /\ current_date' = next_date
          /\ results' = Append(results,
                 [month |-> Strftime(next_date),
                  reported_quantity |-> 0,
                  actual_quantity |-> draw_amount])
          /\ stockpile' = stockpile - draw_amount
    /\ iteration_count' = iteration_count + 1
    /\ UNCHANGED <<pc, monthly_data, threshold, source_df, idx, warned, returned>>
    /\ UNCHANGED <<smoothVars, rateVars>>
    /\ UNCHANGED <<errVars, genVars, convVars, transVars>>

\* the loop exits; if iteration_count >= 120: warning; return results
WalkEndDepletion ==
    /\ pc = "walk_deplete"
    /\ ~DepleteGuard(stockpile, iteration_count)
    /\ warned' = (iteration_count >= DepletionLimit)
    /\ returned' = results
    /\ pc' = "walk_done"
    /\ UNCHANGED <<monthly_data, threshold, source_df, idx, stockpile, results,
                   current_date, iteration_count>>
    /\ UNCHANGED <<smoothVars, rateVars>>
    /\ UNCHANGED <<errVars, genVars, convVars, transVars>>

----------------------------------------------------------------------------
(* _apply_stockpile_smoothing as a function of its arguments               *)

RECURSIVE ObserveAll(_, _, _, _)
\* the for loop over source_df: <<results, stockpile>> from row i on
ObserveAll(src, i, stock, cap) ==
    IF i > Len(src) THEN [results |-> <<>>, stockpile |-> stock]
    ELSE LET step == ObserveStep(stock, src[i].reported_quantity, cap)
             rest == ObserveAll(src, i + 1, step.stockpile_end, cap)
         IN [results |-> <<[month |-> Strftime(src[i].date),
                            reported_quantity |-> src[i].reported_quantity,
                            actual_quantity |-> step.actual_quantity]>> \o rest.results,
             stockpile |-> rest.stockpile]

RECURSIVE DepleteAll(_, _, _, _)
\* the while loop of the depletion from the state (date, stock, count)
DepleteAll(date, stock, count, cap) ==
    IF ~DepleteGuard(stock, count) THEN <<>>
    ELSE LET next_date == AddMonth(date)
             draw_amount == DrawAmount(stock, cap)
         IN <<[month |-> Strftime(next_date),
               reported_quantity |-> 0,
               actual_quantity |-> draw_amount]>>
               \o DepleteAll(next_date, stock - draw_amount, count + 1, cap)

ApplyStockpileSmoothing(data, cap) ==
    IF data = <<>> THEN <<>>
    ELSE LET src == SourceDf(data)
             observed == ObserveAll(src, 1, 0, cap)
         IN IF observed.stockpile > 0
            THEN observed.results \o DepleteAll(MaxDate(src), observed.stockpile, 0, cap)
            ELSE observed.results

----------------------------------------------------------------------------
(* smooth_data_with_stockpile                                              *)

\* exclude_cols = grouping_cols + ["ID"]; month_cols = sorted(the other columns)
MonthCols(table, gcols) == Sorted(Without(table.columns, gcols \o <<ColID>>))

\* float(value) succeeds on numbers
FloatOk(cell) == cell.t = "num"

\* the reported value of a cell: None -> 0.0, else float(value)
ReportedOf(cell) == IF cell.t = "null" THEN 0 ELSE cell.n

\* monthly_data of row r: one entry per month column
MonthlyData(table, gcols, r) ==
    LET months == MonthCols(table, gcols)
    IN [i \in 1..Len(months) |->
           [month |-> months[i],
            reported_quantity |-> ReportedOf(Cell(table, months[i], r))]]

\* has_any_data: some value of the row is > 0
HasAnyData(data) == \E i \in 1..Len(data) : data[i].reported_quantity > 0

\* group_values = {col: df[col][row_idx] for col in grouping_cols}
GroupValues(table, gcols, r) == [i \in 1..Len(gcols) |-> Cell(table, gcols[i], r)]

\* the first actual_quantity of (group, month) among the long results, else null
FirstActual(long, group, month) ==
    IF \E i \in 1..Len(long) : long[i].group = group /\ long[i].month = month
    THEN LET first == CHOOSE i \in 1..Len(long) :
                         /\ long[i].group = group /\ long[i].month = month
                         /\ \A j \in 1..(i - 1) :
                               ~(long[j].group = group /\ long[j].month = month)
         IN Num(long[first].actual_quantity)
    ELSE Null

\* result_df.pivot(values="actual_quantity", index=grouping_cols, on="month",
\* aggregate_function="first")
PivotFirst(long, gcols) ==
    LET groups == Distinct([i \in 1..Len(long) |-> long[i].group])
        months == Distinct([i \in 1..Len(long) |-> long[i].month])
    IN Table(gcols \o months,
             [r \in 1..Len(groups) |->
                 groups[r] \o [c \in 1..Len(months) |->
                                  FirstActual(long, groups[r], months[c])]])

\* DataFrame.select(columns)
Select(table, columns) ==
    Table(columns,
          [r \in 1..Height(table) |->
              [c \in 1..Len(columns) |-> Cell(table, columns[c], r)]])

FillNullOff(table) == table

\* DataFrame.fill_null(0)
FillNull(table) ==
    Table(table.columns,
          [r \in 1..Height(table) |->
              [c \in 1..Len(table.columns) |->
                  IF table.rows[r][c].t = "null" THEN Num(0) ELSE table.rows[r][c]]])

ReassembleUnfilled(long, gcols) ==
    LET pivoted == PivotFirst(long, gcols)
        all_months == Sorted(Without(pivoted.columns, gcols))
    IN Select(pivoted, gcols \o all_months)

\* pivot back, sort the month columns, fill the gaps with 0
Reassemble(long, gcols) ==
    LET pivoted == PivotFirst(long, gcols)
        all_months == Sorted(Without(pivoted.columns, gcols))
    IN FillNull(Select(pivoted, gcols \o all_months))

RECURSIVE SmoothLong(_, _, _, _)
\* the loop over the rows from row r on: the entries added to all_results
SmoothLong(table, gcols, cap, r) ==
    IF r > Height(table) THEN <<>>
    ELSE LET data == MonthlyData(table, gcols, r)
             group_values == GroupValues(table, gcols, r)
             smoothed_data == ApplyStockpileSmoothing(data, cap)
         IN (IF ~HasAnyData(data) THEN <<>>
             ELSE [i \in 1..Len(smoothed_data) |->
                      [month |-> smoothed_data[i].month,
                       reported_quantity |-> smoothed_data[i].reported_quantity,
                       actual_quantity |-> smoothed_data[i].actual_quantity,
                       group |-> group_values]])
            \o SmoothLong(table, gcols, cap, r + 1)

\* smooth_data_with_stockpile as a function of its arguments, for a table
\* whose period cells are numbers or null
SmoothDataWithStockpile(table, gcols, cap) ==
    IF Height(table) = 0 \/ MonthCols(table, gcols) = <<>> THEN table
    ELSE LET long == SmoothLong(table, gcols, cap, 1)
         IN IF long = <<>> THEN Table(gcols, <<>>)
            ELSE Reassemble(long, gcols)

\* entry: the two early returns
SmoothBegin ==
    /\ pc = "smooth_begin"
    /\ IF Height(df) = 0 \/ MonthCols(df, grouping_cols) = <<>>
       THEN /\ pc' = "smooth_done"
            /\ returned' = df
       ELSE /\ pc' = "smooth_rows"
            /\ UNCHANGED returned
    /\ row_idx' = 1
    /\ all_results' = <<>>
    /\ UNCHANGED <<df, grouping_cols, threshold, raised>>
    /\ UNCHANGED <<walkLocals, rateVars>>
    /\ UNCHANGED <<errVars, genVars, convVars, transVars>>

\* for row_idx in range(df.height): one group
SmoothRow ==
    /\ pc = "smooth_rows"
    /\ row_idx <= Height(df)
    /\ LET months == MonthCols(df, grouping_cols)
           data == MonthlyData(df, grouping_cols, row_idx)
           group_values == GroupValues(df, grouping_cols, row_idx)
       IN IF \E i \in 1..Len(months) :
                 LET cell == Cell(df, months[i], row_idx)
                 IN cell.t # "null" /\ ~FloatOk(cell)
          THEN \* float(value) raises; the except clause logs and re-raises
               /\ raised' = "ValueError"
               /\ pc' = "smooth_done"
               /\ UNCHANGED <<row_idx, all_results>>
          ELSE IF HasAnyData(data) /\ \E i \in 1..Len(months) : ~ToDateOk(months[i])
          THEN \* the strict str.to_date of _apply_stockpile_smoothing fails on a
               \* column name that is no period; logged and re-raised
               /\ raised' = "InvalidOperationError"
               /\ pc' = "smooth_done"
               /\ UNCHANGED <<row_idx, all_results>>
          ELSE /\ IF ~HasAnyData(data)
                  THEN all_results' = all_results
                  ELSE LET smoothed_data == ApplyStockpileSmoothing(data, threshold)
                       IN all_results' = all_results \o
                            [i \in 1..Len(smoothed_data) |->
                                [month |-> smoothed_data[i].month,
                                 reported_quantity |-> smoothed_data[i].reported_quantity,
                                 actual_quantity |-> smoothed_data[i].actual_quantity,
                                 group |-> group_values]]
               /\ row_idx' = row_idx + 1
               /\ UNCHANGED <<pc, raised>>
    /\ UNCHANGED <<df, grouping_cols, threshold, returned>>
    /\ UNCHANGED <<walkLocals, rateVars>>
    /\ UNCHANGED <<errVars, genVars, convVars, transVars>>

\* after the loop: the empty result or the reassembled wide table
SmoothFinish ==
    /\ pc = "smooth_rows"
    /\ row_idx > Height(df)
    /\ returned' = IF all_results = <<>>
                   THEN Table(grouping_cols, <<>>)
                   ELSE Reassemble(all_results, grouping_cols)
    /\ pc' = "smooth_done"
    /\ UNCHANGED <<df, grouping_cols, threshold, row_idx, all_results, raised>>
    /\ UNCHANGED <<walkLocals, rateVars>>
    /\ UNCHANGED <<errVars, genVars, convVars, transVars>>

----------------------------------------------------------------------------
(* _validate_rate_consistency                                             *)

IsDigit(c) == \E n \in 0..9 : DigitChars[n + 1] = c

RECURSIVE DigitsPrefix(_)
\* the longest prefix of digits: \d*
DigitsPrefix(s) ==
    IF s = <<>> \/ ~IsDigit(Head(s)) THEN <<>>
    ELSE <<Head(s)>> \o DigitsPrefix(Tail(s))

RECURSIVE IntOfDigits(_)
IntOfDigits(ds) ==
    IF ds = <<>> THEN 0
    ELSE IntOfDigits(SubSeq(ds, 1, Len(ds) - 1)) * 10 + DigitVal(ds[Len(ds)])

\* the fractional digits as thousandths (digits after the third are dropped)
Thousandths(ds) ==
    (IF Len(ds) >= 1 THEN DigitVal(ds[1]) * 100 ELSE 0)
      + (IF Len(ds) >= 2 THEN DigitVal(ds[2]) * 10 ELSE 0)
      + (IF Len(ds) >= 3 THEN DigitVal(ds[3]) ELSE 0)

\* str.extract(r"^(-?\d+\.?\d*)", 1).cast(Float64, strict=False):
\* [ok, v] with v the number in thousandths; not ok is null
NumericRate(cell) ==
    IF cell.t # "str" THEN [ok |-> FALSE, v |-> 0]
    ELSE LET negative == cell.s # <<>> /\ Head(cell.s) = "-"
             body == IF negative THEN Tail(cell.s) ELSE cell.s
             whole == DigitsPrefix(body)
             after == SubSeq(body, Len(whole) + 1, Len(body))
             frac == IF after # <<>> /\ Head(after) = "."
                     THEN DigitsPrefix(Tail(after)) ELSE <<>>
             magnitude == IntOfDigits(whole) * 1000 + Thousandths(frac)
         IN IF whole = <<>> THEN [ok |-> FALSE, v |-> 0]
            ELSE [ok |-> TRUE, v |-> IF negative THEN 0 - magnitude ELSE magnitude]

ParsableRowsAll(table, rate_col) == 1..Height(table)

\* the rows (indices, in row order) whose rate parses: df_parsable
ParsableRows(table, rate_col) ==
    {r \in 1..Height(table) : NumericRate(Cell(table, rate_col, r)).ok}

\* unparsable_count
UnparsableCount(table, rate_col) ==
    Height(table) - Cardinality(ParsableRows(table, rate_col))

\* the rows of a group among a set of rows
GroupRows(table, gcols, rows, key) ==
    {r \in rows : GroupValues(table, gcols, r) = key}

RECURSIVE KeysInOrder(_, _, _, _)
\* the distinct group keys of the chosen rows, in order of first appearance
KeysInOrder(table, gcols, rows, r) ==
    IF r > Height(table) THEN <<>>
    ELSE LET rest == KeysInOrder(table, gcols, rows, r + 1)
             key == GroupValues(table, gcols, r)
         IN IF r \in rows
            THEN <<key>> \o Without(rest, <<key>>)
            ELSE rest

SetMin(S) == CHOOSE x \in S : \A y \in S : x <= y

SetMax(S) == CHOOSE x \in S : \A y \in S : x >= y

\* one row of validation_summary: the aggregates of a group of parsable rows
GroupSummary(table, gcols, rate_col, key) ==
    LET rows == GroupRows(table, gcols, ParsableRows(table, rate_col), key)
        values == {NumericRate(Cell(table, rate_col, r)).v : r \in rows}
        min_rate == SetMin(values)
        max_rate == SetMax(values)
        first_with(v) == SetMin({r \in rows : NumericRate(Cell(table, rate_col, r)).v = v})
    IN [group |-> key,
        n_unique_rates |-> Cardinality({Cell(table, rate_col, r).s : r \in rows}),
        min_rate |-> min_rate,
        max_rate |-> max_rate,
        rate_diff |-> max_rate - min_rate,
        example_rate |-> Cell(table, rate_col, SetMin(rows)),
        min_rate_with_units |-> Cell(table, rate_col, first_with(min_rate)),
        max_rate_with_units |-> Cell(table, rate_col, first_with(max_rate))]

IsVariableAnySpread(summary) ==
    summary.n_unique_rates > 1 /\ summary.rate_diff > 0

\* (n_unique_rates > 1) & (rate_diff > config.RATE_EPSILON)
IsVariable(summary) ==
    summary.n_unique_rates > 1 /\ summary.rate_diff > RateEpsilon

\* order of two group keys under sort(grouping_cols)
RECURSIVE KeyLess(_, _)
KeyLess(a, b) ==
    IF a = <<>> \/ b = <<>> THEN FALSE
    ELSE IF Head(a).s = Head(b).s THEN KeyLess(Tail(a), Tail(b))
    ELSE StrLess(Head(a).s, Head(b).s)

RECURSIVE InsertByKey(_, _)
InsertByKey(sorted, row) ==
    IF sorted = <<>> THEN <<row>>
    ELSE IF KeyLess(row.group, Head(sorted).group)
         THEN <<row>> \o sorted
         ELSE <<Head(sorted)>> \o InsertByKey(Tail(sorted), row)

RECURSIVE SortByKey(_)
SortByKey(rows) ==
    IF rows = <<>> THEN <<>>
    ELSE InsertByKey(SortByKey(SubSeq(rows, 1, Len(rows) - 1)), rows[Len(rows)])

RECURSIVE VariableOnly(_)
VariableOnly(summaries) ==
    IF summaries = <<>> THEN <<>>
    ELSE (IF IsVariable(Head(summaries)) THEN <<Head(summaries)>> ELSE <<>>)
            \o VariableOnly(Tail(summaries))

\* variable_groups, sorted by the grouping columns: the rows of qa_df
VariableGroups(table, gcols, rate_col) ==
    LET keys == KeysInOrder(table, gcols, ParsableRows(table, rate_col), 1)
    IN SortByKey(VariableOnly(
           [i \in 1..Len(keys) |-> GroupSummary(table, gcols, rate_col, keys[i])]))

ColFirstRate == <<"f", "i", "r", "s", "t", "_", "s", "i", "_", "r", "a", "t", "e">>

\* df.group_by(grouping_cols).agg(pl.col(si_rate_col).first()): over ALL rows
RateDescriptors(table, gcols, rate_col) ==
    LET keys == KeysInOrder(table, gcols, 1..Height(table), 1)
    IN Table(gcols \o <<ColFirstRate>>,
             [i \in 1..Len(keys) |->
                 keys[i] \o <<Cell(table, rate_col,
                                   SetMin(GroupRows(table, gcols, 1..Height(table), keys[i])))>>])

\* the return value when no rate parses
NoNumericRatesResult(table, rate_col) ==
    [is_consistent |-> TRUE,
     variable_groups_df |-> <<>>,
     rate_descriptors_df |-> <<>>,
     unparsable_rate_count |-> UnparsableCount(table, rate_col)]

\* if df_parsable.height == 0
NoNumericRatesGuard(table, rate_col) == ParsableRows(table, rate_col) = {}

\* the return value after the consistency check
CheckedResult(table, gcols, rate_col) ==
    LET variable_groups == VariableGroups(table, gcols, rate_col)
    IN [is_consistent |-> variable_groups = <<>>,
        variable_groups_df |-> IF variable_groups = <<>> THEN <<>> ELSE <<variable_groups>>,
        rate_descriptors_df |-> <<RateDescriptors(table, gcols, rate_col)>>,
        unparsable_rate_count |-> UnparsableCount(table, rate_col)]

ValidateRateConsistency(table, gcols, rate_col) ==
    IF NoNumericRatesGuard(table, rate_col)
    THEN NoNumericRatesResult(table, rate_col)
    ELSE CheckedResult(table, gcols, rate_col)

\* extract the numeric rates; return early when none parses
RateExtract ==
    /\ pc = "rate_begin"
    /\ IF NoNumericRatesGuard(df, si_rate_col)
       THEN /\ validation_result' = <<NoNumericRatesResult(df, si_rate_col)>>
            /\ pc' = "rate_done"
       ELSE /\ pc' = "rate_check"
            /\ UNCHANGED validation_result
    /\ UNCHANGED <<walkLocals, threshold, returned, smoothVars, si_rate_col,
                   df_transformed>>
    /\ UNCHANGED <<errVars, genVars, convVars, transVars>>

\* summarise the groups, flag the variable ones, build the descriptors, return
RateCheck ==
    /\ pc = "rate_check"
    /\ validation_result' = <<CheckedResult(df, grouping_cols, si_rate_col)>>
    /\ pc' = "rate_done"
    /\ UNCHANGED <<walkLocals, threshold, returned, smoothVars, si_rate_col,
                   df_transformed>>
    /\ UNCHANGED <<errVars, genVars, convVars, transVars>>

----------------------------------------------------------------------------
(* aggregate_data and its helpers                                          *)

ColParsedDate == <<"p", "a", "r", "s", "e", "d", "_", "d", "a", "t", "e">>

ColNumericDriver == <<"n", "u", "m", "e", "r", "i", "c", "_", "d", "r", "i", "v", "e", "r">>

ColMonthPeriod == <<"m", "o", "n", "t", "h", "_", "p", "e", "r", "i", "o", "d">>

\* a parsed date cell: year, month and day packed into n
DateCell(y, m, d) == [t |-> "date", n |-> y * 10000 + m * 100 + d, s |-> <<>>]

\* str.to_datetime(strict=False) on text of the form YYYY-MM-DD; anything
\* else (other text, null) becomes null
ParsedDate(cell) ==
    IF /\ cell.t = "str"
       /\ Len(cell.s) = 10
       /\ \A i \in {1, 2, 3, 4, 6, 7, 9, 10} : IsDigit(cell.s[i])
       /\ cell.s[5] = "-" /\ cell.s[8] = "-"
    THEN LET y == IntOfDigits(SubSeq(cell.s, 1, 4))
             m == IntOfDigits(SubSeq(cell.s, 6, 7))
             d == IntOfDigits(SubSeq(cell.s, 9, 10))
         IN IF m \in 1..12 /\ d \in 1..31 THEN DateCell(y, m, d) ELSE Null
    ELSE Null

\* cast(pl.Float64, strict=False).fill_null(0): numbers stay, text holding a
\* whole number is parsed, other text and null become 0
NumericDriver(cell) ==
    IF cell.t = "num" THEN Num(cell.n)
    ELSE IF cell.t = "str" /\ cell.s # <<>> /\ DigitsPrefix(cell.s) = cell.s
         THEN Num(IntOfDigits(cell.s))
         ELSE Num(0)

\* dt.truncate("1mo").dt.strftime("%Y-%m")
MonthPeriod(date_cell) ==
    Str(Strftime(<<date_cell.n \div 10000, (date_cell.n \div 100) % 100>>))

KeepParsedAll(rows) == [i \in 1..Len(rows) |-> rows[i].cells]

RECURSIVE KeepParsed(_)
\* filter(pl.col("parsed_date").is_not_null()); parsed_date is the first added cell
KeepParsed(rows) ==
    IF rows = <<>> THEN <<>>
    ELSE (IF Head(rows).parsed.t = "null" THEN <<>> ELSE <<Head(rows).cells>>)
            \o KeepParsed(Tail(rows))

\* _preprocess_dataframe with the monthly truncation unit
Preprocess(table, gcols, start_col, driver_col, passthrough) ==
    LET selected == Distinct(gcols \o <<start_col, driver_col>> \o passthrough)
        chosen == Select(table, selected)
        extended == [r \in 1..Height(table) |->
                        LET parsed_date == ParsedDate(Cell(table, start_col, r))
                        IN [parsed |-> parsed_date,
                            cells |-> chosen.rows[r] \o
                                <<parsed_date,
                                  NumericDriver(Cell(table, driver_col, r)),
                                  IF parsed_date.t = "null" THEN Null
                                  ELSE MonthPeriod(parsed_date)>>]]
    IN Table(selected \o <<ColParsedDate, ColNumericDriver, ColMonthPeriod>>,
             KeepParsed(extended))

RECURSIVE SumDriverFirst(_, _, _, _)
SumDriverFirst(pre, gcols, r, cellkey) ==
    IF r > Height(pre) THEN 0
    ELSE IF /\ GroupValues(pre, gcols, r) = cellkey[1]
            /\ Cell(pre, ColMonthPeriod, r).s = cellkey[2]
         THEN Cell(pre, ColNumericDriver, r).n
         ELSE SumDriverFirst(pre, gcols, r + 1, cellkey)

RECURSIVE SumDriver(_, _, _, _)
\* the sum of numeric_driver over the rows r.. of a group and period
SumDriver(pre, gcols, r, cellkey) ==
    IF r > Height(pre) THEN 0
    ELSE (IF /\ GroupValues(pre, gcols, r) = cellkey[1]
             /\ Cell(pre, ColMonthPeriod, r).s = cellkey[2]
          THEN Cell(pre, ColNumericDriver, r).n ELSE 0)
            + SumDriver(pre, gcols, r + 1, cellkey)

\* rows as sort(grouping_cols) orders them
RECURSIVE InsertRowByKey(_, _, _)
InsertRowByKey(sorted, row, n) ==
    IF sorted = <<>> THEN <<row>>
    ELSE IF KeyLess(SubSeq(row, 1, n), SubSeq(Head(sorted), 1, n))
         THEN <<row>> \o sorted
         ELSE <<Head(sorted)>> \o InsertRowByKey(Tail(sorted), row, n)

RECURSIVE SortRowsByKey(_, _)
SortRowsByKey(rows, n) ==
    IF rows = <<>> THEN <<>>
    ELSE InsertRowByKey(SortRowsByKey(SubSeq(rows, 1, Len(rows) - 1), n), rows[Len(rows)], n)

\* _pivot_monthly: pivot(values="numeric_driver", index=grouping_cols,
\* columns="month_period", aggregate_function="sum").sort(grouping_cols)
PivotMonthly(pre, gcols) ==
    LET groups == KeysInOrder(pre, gcols, 1..Height(pre), 1)
        months == Distinct([r \in 1..Height(pre) |-> Cell(pre, ColMonthPeriod, r).s])
        present(g, m) == \E r \in 1..Height(pre) :
                            /\ GroupValues(pre, gcols, r) = g
                            /\ Cell(pre, ColMonthPeriod, r).s = m
    IN Table(gcols \o months,
             SortRowsByKey(
                 [i \in 1..Len(groups) |->
                     groups[i] \o [c \in 1..Len(months) |->
                         IF present(groups[i], months[c])
                         THEN Num(SumDriver(pre, gcols, 1, <<groups[i], months[c]>>))
                         ELSE Null]],
                 Len(gcols)))

\* _is_month_column: re.match(r'^\d{4}-\d{2}$', col_name)
IsMonthColumn(name) ==
    /\ Len(name) = 7
    /\ \A i \in {1, 2, 3, 4, 6, 7} : IsDigit(name[i])
    /\ name[5] = "-"

RECURSIVE MonthColumnsOf(_)
\* [col for col in columns if _is_month_column(col)]
MonthColumnsOf(columns) ==
    IF columns = <<>> THEN <<>>
    ELSE (IF IsMonthColumn(Head(columns)) THEN <<Head(columns)>> ELSE <<>>)
            \o MonthColumnsOf(Tail(columns))

RECURSIVE JoinHyphen(_)
\* pl.concat_str(cells, separator="-"): null if any cell is null
JoinHyphen(cells) ==
    IF Len(cells) = 1 THEN Head(cells).s
    ELSE Head(cells).s \o <<"-">> \o JoinHyphen(Tail(cells))

\* _generate_id_column
GenerateIdColumn(table, gcols) ==
    Table(<<ColID>> \o table.columns,
          [r \in 1..Height(table) |->
              <<IF gcols = <<>> THEN Str(<<Digit(r - 1)>>)
                ELSE IF \E i \in 1..Len(gcols) : Cell(table, gcols[i], r).t = "null"
                     THEN Null
                     ELSE Str(JoinHyphen(GroupValues(table, gcols, r)))>>
                \o table.rows[r]])

\* pivoted_with_id.join(rate_descriptors_df, on=grouping_cols, how="left")
\* .rename({"first_si_rate": si_rate_col})
\* .select(["ID"] + grouping_cols + [si_rate_col] + month_cols)
JoinRate(with_id, descriptors, gcols, rate_col, month_cols) ==
    LET rate_of(r) ==
            LET key == GroupValues(with_id, gcols, r)
                hits == {q \in 1..Height(descriptors) :
                            GroupValues(descriptors, gcols, q) = key}
            IN IF hits = {} THEN Null ELSE Cell(descriptors, ColFirstRate, SetMin(hits))
        head == <<ColID>> \o gcols
    IN Table(head \o <<rate_col>> \o month_cols,
             [r \in 1..Height(with_id) |->
                 Select(with_id, head).rows[r] \o <<rate_of(r)>>
                    \o Select(with_id, month_cols).rows[r]])

\* the part of aggregate_data after the rate validation
PivotAndAssemble(pre, gcols, rate_col, validation) ==
    LET pivoted == PivotMonthly(pre, gcols)
        month_cols == Sorted(MonthColumnsOf(pivoted.columns))
    IN IF month_cols = <<>>
       THEN GenerateIdColumn(Select(pivoted, gcols), gcols)
       ELSE LET dense == FillNull(Select(pivoted, gcols \o month_cols))
                pivoted_with_id == GenerateIdColumn(dense, gcols)
            IN IF validation # <<>> /\ validation[1].rate_descriptors_df # <<>>
               THEN JoinRate(pivoted_with_id, validation[1].rate_descriptors_df[1],
                             gcols, rate_col, month_cols)
               ELSE pivoted_with_id

ColStart == <<"S">>

ColDriver == <<"D">>

MissingColumnsFirst(table, gcols) ==
    LET missing == Without(Distinct(gcols \o <<ColStart, ColDriver>>), table.columns)
    IN IF missing = <<>> THEN <<>> ELSE <<missing[1]>>

\* _validate_columns: the required columns that are missing
MissingColumns(table, gcols) ==
    Without(Distinct(gcols \o <<ColStart, ColDriver>>), table.columns)

\* _validate_columns: raise ValueError naming the sorted missing columns
AggValidateColumns ==
    /\ pc = "agg_begin"
    /\ IF MissingColumns(df, grouping_cols) # <<>>
       THEN /\ raised' = "ValueError"
            /\ error_message' = Sorted(MissingColumns(df, grouping_cols))
            /\ pc' = "agg_done"
       ELSE /\ pc' = "agg_preprocess"
            /\ UNCHANGED <<raised, error_message>>
    /\ UNCHANGED <<walkLocals, threshold, returned, df, grouping_cols, row_idx,
                   all_results, rateVars>>
    /\ UNCHANGED <<genVars, convVars, transVars>>

\* preprocess; an empty result returns the empty table with the ID column.
\* Selecting a passthrough column the table does not have fails in the
\* library; the except clause logs and re-raises.
AggPreprocess ==
    /\ pc = "agg_preprocess"
    /\ IF si_rate_col # <<>> /\ ~InSeq(si_rate_col, df.columns)
       THEN /\ raised' = "ColumnNotFoundError"
            /\ pc' = "agg_done"
            /\ UNCHANGED <<df_transformed, returned>>
       ELSE LET pre == Preprocess(df, grouping_cols, ColStart, ColDriver,
                                  IF si_rate_col = <<>> THEN <<>> ELSE <<si_rate_col>>)
            IN /\ df_transformed' = pre
               /\ IF Height(pre) = 0
                  THEN /\ returned' = GenerateIdColumn(Table(grouping_cols, <<>>),
                                                       grouping_cols)
                       /\ pc' = "agg_done"
                  ELSE /\ pc' = "agg_validate"
                       /\ UNCHANGED returned
               /\ UNCHANGED raised
    /\ UNCHANGED <<walkLocals, threshold, df, grouping_cols, row_idx, all_results,
                   si_rate_col, validation_result>>
    /\ UNCHANGED <<errVars, genVars, convVars, transVars>>

\* if si_rate_col and si_rate_col in df_transformed.columns: validate
AggValidateRate ==
    /\ pc = "agg_validate"
    /\ validation_result' =
          IF si_rate_col # <<>> /\ InSeq(si_rate_col, df_transformed.columns)
          THEN <<ValidateRateConsistency(df_transformed, grouping_cols, si_rate_col)>>
          ELSE <<>>
    /\ pc' = "agg_pivot"
    /\ UNCHANGED <<walkLocals, threshold, returned, smoothVars, si_rate_col, df_transformed>>
    /\ UNCHANGED <<errVars, genVars, convVars, transVars>>

\* pivot, order the columns, fill, add the ID, join the rate, return
AggPivot ==
    /\ pc = "agg_pivot"
    /\ returned' = PivotAndAssemble(df_transformed, grouping_cols, si_rate_col,
                                    validation_result)
    /\ pc' = "agg_done"
    /\ UNCHANGED <<walkLocals, threshold, smoothVars, rateVars>>
    /\ UNCHANGED <<errVars, genVars, convVars, transVars>>

----------------------------------------------------------------------------
(* generate_new_column                                                     *)

CastFloatNoParse(cell) == IF cell.t = "num" THEN Num(cell.n) ELSE Num(0)

\* cast(pl.Float64, strict=False).fill_null(0) on a text column and
\* cast(pl.Float64).fill_null(0) on a numeric one: numbers stay, text
\* holding a whole number is parsed, other text and null become 0
CastFloat(cell) ==
    IF cell.t = "num" THEN Num(cell.n)
    ELSE IF cell.t = "str" /\ cell.s # <<>> /\ DigitsPrefix(cell.s) = cell.s
         THEN Num(IntOfDigits(cell.s))
         ELSE Num(0)

\* df.with_columns(cast_expressions): the target columns replaced in place
CastColumns(table, targets) ==
    Table(table.columns,
          [r \in 1..Height(table) |->
              [c \in 1..Len(table.columns) |->
                  IF InSeq(table.columns[c], targets)
                  THEN CastFloat(table.rows[r][c])
                  ELSE table.rows[r][c]]])

RECURSIVE SumHorizontal(_, _, _)
\* pl.sum_horizontal(target_cols), for row r
SumHorizontal(table, targets, r) ==
    IF targets = <<>> THEN 0
    ELSE Cell(table, Head(targets), r).n + SumHorizontal(table, Tail(targets), r)

RECURSIVE ProductReduce(_, _, _)
\* reduce(lambda a, b: a * b, [pl.col(c) for c in target_cols]), for row r
ProductReduce(table, targets, r) ==
    IF Len(targets) = 1 THEN Cell(table, targets[1], r).n
    ELSE ProductReduce(table, SubSeq(targets, 1, Len(targets) - 1), r)
            * Cell(table, targets[Len(targets)], r).n

ReplaceZeroOff(cell) == cell

\* pl.col(target_cols[1]).replace(0, None)
ReplaceZero(cell) == IF cell.t = "num" /\ cell.n = 0 THEN Null ELSE cell

Abs(n) == IF n < 0 THEN 0 - n ELSE n

RECURSIVE Gcd(_, _)
Gcd(a, b) == IF b = 0 THEN a ELSE Gcd(b, a % b)

\* the Float64 quotient p / q of two numbers, kept exact as a reduced
\* fraction with a positive denominator
Ratio(p, q) ==
    LET g == Gcd(Abs(p), Abs(q))
        sign == IF q < 0 THEN 0 - 1 ELSE 1
    IN [t |-> "ratio", n |-> sign * (p \div g), s |-> <<>>, d |-> Abs(q) \div g]

\* a Float64 that is infinite or not a number
NonFinite == [t |-> "nonfinite", n |-> 0, s |-> <<>>]

\* pl.col(target_cols[0]) / denominator: null if an operand is null; a zero
\* divisor gives an infinity or NaN in Float64, never an exception
Divide(numerator, denominator) ==
    IF numerator.t = "null" \/ denominator.t = "null" THEN Null
    ELSE IF denominator.n = 0 THEN NonFinite
    ELSE Ratio(numerator.n, denominator.n)

DivideArityAtLeastTwo(targets) == Len(targets) >= 2

\* the guard of line 57, negated: len(target_cols) == 2
DivideArityOk(targets) == Len(targets) = 2

SupportedOperations == {"sum", "multiply", "divide"}

\* the value of the expression chosen by the operation, for row r
Expression(table, targets, op, r) ==
    IF op = "sum" THEN Num(SumHorizontal(table, targets, r))
    ELSE IF op = "multiply" THEN Num(ProductReduce(table, targets, r))
    ELSE Divide(Cell(table, targets[1], r), ReplaceZero(Cell(table, targets[2], r)))

WithColumnFirst(table, name, values) ==
    Table(<<name>> \o table.columns,
          [r \in 1..Height(table) |-> <<values[r]>> \o table.rows[r]])

\* df.with_columns(expression.alias(new_col_name)) for a new name: appended last
WithColumn(table, name, values) ==
    Table(table.columns \o <<name>>,
          [r \in 1..Height(table) |-> table.rows[r] \o <<values[r]>>])

\* lines 28-32: the target list is empty, or the new name is taken
GenCheckArguments ==
    /\ pc = "gen_begin"
    /\ IF target_cols = <<>> \/ InSeq(new_col_name, df.columns)
       THEN /\ raised' = "ValueError"
            /\ pc' = "gen_done"
       ELSE /\ pc' = "gen_cast"
            /\ UNCHANGED raised
    /\ UNCHANGED <<walkLocals, threshold, returned, df, grouping_cols, row_idx,
                   all_results, rateVars, errVars, genVars, convVars, transVars>>

\* lines 36-49: a target column the table lacks raises; else cast the targets
GenCast ==
    /\ pc = "gen_cast"
    /\ IF \E i \in 1..Len(target_cols) : ~InSeq(target_cols[i], df.columns)
       THEN /\ raised' = "ValueError"
            /\ pc' = "gen_done"
            /\ UNCHANGED cast_df
       ELSE /\ cast_df' = CastColumns(df, target_cols)
            /\ pc' = "gen_apply"
            /\ UNCHANGED raised
    /\ UNCHANGED <<walkLocals, threshold, returned, df, grouping_cols, row_idx,
                   all_results, rateVars, errVars, convVars, transVars>>
    /\ UNCHANGED <<target_cols, new_col_name, operation>>

\* lines 51-66: choose the expression, or raise; return the table with the
\* new column
GenApply ==
    /\ pc = "gen_apply"
    /\ IF \/ operation \notin SupportedOperations
          \/ operation = "divide" /\ ~DivideArityOk(target_cols)
       THEN /\ raised' = "ValueError"
            /\ UNCHANGED returned
       ELSE /\ returned' = WithColumn(cast_df, new_col_name,
                                [r \in 1..Height(cast_df) |->
                                    Expression(cast_df, target_cols, operation, r)])
            /\ UNCHANGED raised
    /\ pc' = "gen_done"
    /\ UNCHANGED <<walkLocals, threshold, df, grouping_cols, row_idx,
                   all_results, rateVars, errVars, genVars, convVars, transVars>>

----------------------------------------------------------------------------
(* unit_converter                                                          *)

UpperChars ==
    <<"A", "B", "C", "D", "E", "F", "G", "H", "I", "J", "K", "L", "M",
      "N", "O", "P", "Q", "R", "S", "T", "U", "V", "W", "X", "Y", "Z">>

LowerChars ==
    <<"a", "b", "c", "d", "e", "f", "g", "h", "i", "j", "k", "l", "m",
      "n", "o", "p", "q", "r", "s", "t", "u", "v", "w", "x", "y", "z">>

IsUpper(c) == \E i \in 1..26 : UpperChars[i] = c

\* [a-zA-Z]
IsLetter(c) == IsUpper(c) \/ \E i \in 1..26 : LowerChars[i] = c

\* str.lower()
Lower(s) ==
    [i \in 1..Len(s) |->
        IF IsUpper(s[i])
        THEN LowerChars[CHOOSE k \in 1..26 : UpperChars[k] = s[i]]
        ELSE s[i]]

RECURSIVE SkipSpaces(_)
\* what follows \s*
SkipSpaces(s) ==
    IF s # <<>> /\ Head(s) = " " THEN SkipSpaces(Tail(s)) ELSE s

RECURSIVE DropTrailingSpaces(_)
DropTrailingSpaces(s) ==
    IF s # <<>> /\ s[Len(s)] = " "
    THEN DropTrailingSpaces(SubSeq(s, 1, Len(s) - 1)) ELSE s

\* rate_str.strip()
Strip(s) == DropTrailingSpaces(SkipSpaces(s))

RECURSIVE NumberPrefix(_)
\* the longest prefix matching [\d.]*
NumberPrefix(s) ==
    IF s = <<>> \/ ~(IsDigit(Head(s)) \/ Head(s) = ".") THEN <<>>
    ELSE <<Head(s)>> \o NumberPrefix(Tail(s))

RECURSIVE LettersPrefix(_)
\* the longest prefix matching [a-zA-Z]*
LettersPrefix(s) ==
    IF s = <<>> \/ ~IsLetter(Head(s)) THEN <<>>
    ELSE <<Head(s)>> \o LettersPrefix(Tail(s))

\* s without its first n characters
Drop(s, n) == SubSeq(s, n + 1, Len(s))

RECURSIVE Pow10(_)
Pow10(k) == IF k = 0 THEN 1 ELSE 10 * Pow10(k - 1)

\* the fraction n / d in lowest terms, standing for a float
Rat(n, d) == LET g == Gcd(n, d) IN <<n \div g, d \div g>>

RatMul(a, b) == Rat(a[1] * b[1], a[2] * b[2])

FloatOfLenient(value_str) ==
    LET digits == SelectSeq(value_str, IsDigit)
    IN IF digits = <<>> THEN <<>> ELSE <<Rat(IntOfDigits(digits), 1)>>

\* float(value_str) for a text of digits and dots: <<>> stands for the
\* ValueError raised unless there is a digit and at most one dot
FloatOf(value_str) ==
    LET digits == SelectSeq(value_str, IsDigit)
        dots == Len(value_str) - Len(digits)
        whole == DigitsPrefix(value_str)
        decimals == Len(digits) - Len(whole)
    IN IF digits = <<>> \/ dots > 1 THEN <<>>
       ELSE <<Rat(IntOfDigits(digits), Pow10(decimals))>>

\* parse_rate_string: <<>> for None, else <<[value, unit, time_period]>>
ParseRateString(arg) ==
    IF arg.t # "str" THEN <<>>
    ELSE LET stripped == Strip(arg.s)
             value_str == NumberPrefix(stripped)
             at_unit == SkipSpaces(Drop(stripped, Len(value_str)))
             unit == LettersPrefix(at_unit)
             at_slash == SkipSpaces(Drop(at_unit, Len(unit)))
             at_period == IF at_slash = <<>> THEN <<>> ELSE SkipSpaces(Tail(at_slash))
             time_period == LettersPrefix(at_period)
         IN IF \/ value_str = <<>>
               \/ unit = <<>>
               \/ at_slash = <<>>
               \/ Head(at_slash) # "/"
               \/ time_period = <<>>
               \/ time_period # at_period
            THEN <<>>
            ELSE IF FloatOf(value_str) = <<>> THEN <<>>
            ELSE <<[value |-> FloatOf(value_str)[1], unit |-> unit,
                    time_period |-> time_period]>>

\* unit_aliases.get(unit_str.lower(), unit_str)
NormalizedUnit(unit_str) ==
    LET u == Lower(unit_str)
    IN CASE
         u = <<"f", "t", "p">> -> <<"f", "o", "o", "t">>
      [] u = <<"f", "t">> -> <<"f", "o", "o", "t">>
      [] u = <<"m">> -> <<"m", "e", "t", "e", "r">>
      [] u = <<"m", "e", "t", "e", "r", "s">> -> <<"m", "e", "t", "e", "r">>
      [] u = <<"m", "e", "t", "r", "e", "s">> -> <<"m", "e", "t", "e", "r">>
      [] u = <<"d", "m">> -> <<"d", "e", "c", "i", "m", "e", "t", "e", "r">>
      [] u = <<"g", "a", "l">> -> <<"g", "a", "l", "l", "o", "n">>
      [] u = <<"l">> -> <<"l", "i", "t", "e", "r">>
      [] u = <<"l", "i", "t", "e", "r", "s">> -> <<"l", "i", "t", "e", "r">>
      [] u = <<"l", "i", "t", "r", "e", "s">> -> <<"l", "i", "t", "e", "r">>
      [] u = <<"w", "m", "t">> -> <<"m", "e", "t", "r", "i", "c", "_", "t", "o", "n">>
      [] u = <<"d", "m", "t">> -> <<"m", "e", "t", "r", "i", "c", "_", "t", "o", "n">>
      [] u = <<"m", "t">> -> <<"m", "e", "t", "r", "i", "c", "_", "t", "o", "n">>
      [] u = <<"t", "o", "n", "n", "e">> -> <<"m", "e", "t", "r", "i", "c", "_", "t", "o", "n">>
      [] u = <<"t", "o", "n", "n", "e", "s">> -> <<"m", "e", "t", "r", "i", "c", "_", "t", "o", "n">>
      [] u = <<"t">> -> <<"m", "e", "t", "r", "i", "c", "_", "t", "o", "n">>
      [] OTHER -> unit_str

\* the registry's answer for a unit name: <<>> stands for UndefinedUnitError,
\* else <<[factor, unit]>> gives the target unit of lines 113-124 and the
\* factor to it. Only the names the aliases lead to are listed, and of those
\* gallon (3.785411784 liter) is left out, its factor being too long for the
\* integers used here; every other name counts as undefined
Registry(name) ==
    CASE name = <<"f", "o", "o", "t">> -> <<[factor |-> <<381, 1250>>, unit |-> <<"m", "e", "t", "e", "r">>]>>
      [] name = <<"m", "e", "t", "e", "r">> -> <<[factor |-> <<1, 1>>, unit |-> <<"m", "e", "t", "e", "r">>]>>
      [] name = <<"d", "e", "c", "i", "m", "e", "t", "e", "r">> -> <<[factor |-> <<1, 10>>, unit |-> <<"m", "e", "t", "e", "r">>]>>
      [] name = <<"l", "i", "t", "e", "r">> -> <<[factor |-> <<1, 1>>, unit |-> <<"l", "i", "t", "e", "r">>]>>
      [] name = <<"m", "e", "t", "r", "i", "c", "_", "t", "o", "n">> -> <<[factor |-> <<1000, 1>>, unit |-> <<"k", "i", "l", "o", "g", "r", "a", "m">>]>>
      [] OTHER -> <<>>

\* convert_unit_to_si: the converted value and unit, or the value and unit
\* given when the registry raises
ConvertUnitToSi(value, unit_str) ==
    LET found == Registry(NormalizedUnit(unit_str))
    IN IF found = <<>> THEN [value |-> value, unit |-> unit_str]
       ELSE [value |-> RatMul(value, found[1].factor), unit |-> found[1].unit]

TimeMultiplierMonthly(time_period) == <<<<1, 1>>>>

\* TIME_TO_MONTH_MULTIPLIERS.get(time_period.lower()): <<>> stands for None
TimeToMonthMultiplier(time_period) ==
    LET p == Lower(time_period)
    IN CASE
         p = <<"w", "e", "e", "k">> -> <<<<433, 100>>>>
      [] p = <<"w">> -> <<<<433, 100>>>>
      [] p = <<"d", "a", "y">> -> <<<<761, 25>>>>
      [] p = <<"d">> -> <<<<761, 25>>>>
      [] p = <<"y", "e", "a", "r">> -> <<<<1, 12>>>>
      [] p = <<"y">> -> <<<<1, 12>>>>
      [] p = <<"y", "r">> -> <<<<1, 12>>>>
      [] p = <<"m", "o", "n", "t", "h">> -> <<<<1, 1>>>>
      [] p = <<"m", "o">> -> <<<<1, 1>>>>
      [] p = <<"m">> -> <<<<1, 1>>>>
      [] OTHER -> <<>>

RECURSIVE IntToDigits(_)
IntToDigits(n) ==
    IF n < 10 THEN <<Digit(n)>> ELSE IntToDigits(n \div 10) \o <<Digit(n % 10)>>

\* the hundredths a value can round to: the nearest, and either neighbour
\* when the value lies midway, where the float's own error decides
NearestHundredths(value) ==
    LET q == (value[1] * 100) \div value[2]
        rem == (value[1] * 100) % value[2]
    IN IF 2 * rem < value[2] THEN {q}
       ELSE IF 2 * rem > value[2] THEN {q + 1}
       ELSE {q, q + 1}

\* f"{monthly_value:.2f}{si_unit}/mo" for a value of h hundredths
FormatResult(h, si_unit) ==
    IntToDigits(h \div 100) \o <<".", Digit((h % 100) \div 10), Digit(h % 10)>>
        \o si_unit \o <<"/", "m", "o">>

\* lines 155-158: parse; None returns the argument itself
ConvParse ==
    /\ pc = "conv_begin"
    /\ parsed' = ParseRateString(rate_str)
    /\ IF ParseRateString(rate_str) = <<>>
       THEN /\ returned' = rate_str
            /\ pc' = "conv_done"
       ELSE /\ pc' = "conv_unit"
            /\ UNCHANGED returned
    /\ UNCHANGED <<walkLocals, threshold, smoothVars, rateVars, errVars, genVars,
                   rate_str, si, transVars>>

\* lines 160-163
ConvUnit ==
    /\ pc = "conv_unit"
    /\ si' = <<ConvertUnitToSi(parsed[1].value, parsed[1].unit)>>
    /\ pc' = "conv_format"
    /\ UNCHANGED <<walkLocals, threshold, returned, smoothVars, rateVars, errVars,
                   genVars, rate_str, parsed, transVars>>

\* lines 166-178: an unknown period counts as monthly
ConvFormat ==
    /\ pc = "conv_format"
    /\ LET found == TimeToMonthMultiplier(parsed[1].time_period)
           time_multiplier == IF found = <<>> THEN <<1, 1>> ELSE found[1]
           monthly_value == RatMul(si[1].value, time_multiplier)
       IN \E h \in NearestHundredths(monthly_value) :
            returned' = Str(FormatResult(h, si[1].unit))
    /\ pc' = "conv_done"
    /\ UNCHANGED <<walkLocals, threshold, smoothVars, rateVars, errVars, genVars,
                   convVars, transVars>>

----------------------------------------------------------------------------
(* TransformationStage                                                    *)

\* the conditions under which generate_new_column raises ValueError
GenerateRaises(table, targets, name, op) ==
    \/ targets = <<>>
    \/ InSeq(name, table.columns)
    \/ \E i \in 1..Len(targets) : ~InSeq(targets[i], table.columns)
    \/ op \notin SupportedOperations
    \/ op = "divide" /\ ~DivideArityOk(targets)

\* the table generate_new_column returns when it does not raise
GenerateNewColumn(table, targets, name, op) ==
    LET cast == CastColumns(table, targets)
    IN WithColumn(cast, name,
                  [r \in 1..Height(cast) |-> Expression(cast, targets, op, r)])

RECURSIVE JoinComma(_)
\* ", ".join(target_cols)
JoinComma(names) ==
    IF names = <<>> THEN <<>>
    ELSE IF Len(names) = 1 THEN names[1]
    ELSE names[1] \o <<",", " ">> \o JoinComma(Tail(names))

\* the values of the tree row inserted for a transformation
TreeValues(trans) == <<trans.new_col, trans.op, JoinComma(trans.targets)>>

RECURSIVE ApplyTransformations(_, _, _)
\* for trans in self.transformations: temp_df = generate_new_column(...),
\* from position i; failed is the position that raised, 0 if none did
ApplyTransformations(temp_df, list, i) ==
    IF i > Len(list) THEN [failed |-> 0, temp_df |-> temp_df]
    ELSE LET trans == list[i]
         IN IF GenerateRaises(temp_df, trans.targets, trans.new_col, trans.op)
            THEN [failed |-> i, temp_df |-> temp_df]
            ELSE ApplyTransformations(
                     GenerateNewColumn(temp_df, trans.targets, trans.new_col, trans.op),
                     list, i + 1)

PopFirst(list) == [item |-> Head(list), rest |-> Tail(list)]

\* self.transformations.pop(): the last entry, and the list without it
Pop(list) == [item |-> list[Len(list)], rest |-> SubSeq(list, 1, Len(list) - 1)]

RECURSIVE ReapplyTransformations(_, _, _, _)
\* _reapply_transformations: apply the list to a clone of the original; on
\* ValueError show the error, pop the last entry of the list, delete the last
\* row of the tree, log the popped entry as failed and start again
ReapplyTransformations(original, list, rows, log) ==
    LET run == ApplyTransformations(original, list, 1)
    IN IF run.failed = 0
       THEN [transformations |-> list, tree |-> rows,
             transformed_df |-> run.temp_df, reverted |-> log]
       ELSE LET bad_transform == Pop(list).item
            IN ReapplyTransformations(
                   original, Pop(list).rest, SubSeq(rows, 1, Len(rows) - 1),
                   Append(log, [bad_transform |-> bad_transform,
                                e |-> list[run.failed]]))

\* the listbox of target columns: sorted(self.context.state.df.columns)
Listbox(table) == Sorted(table.columns)

\* [self.target_cols_listbox.get(i) for i in selected_indices]
SelectedTargets(table, selected_indices) ==
    LET hits == SelectSeq([i \in 1..Len(Listbox(table)) |-> i],
                          LAMBDA i : i \in selected_indices)
    IN [k \in 1..Len(hits) |-> Listbox(table)[hits[k]]]

\* _add_transformation: the three input checks, then append to the list,
\* insert the tree row and re-apply
AddTransformation(selected_indices, op, text) ==
    /\ pc = "trans_idle"
    /\ LET targets == SelectedTargets(df, selected_indices)
           name == Strip(text)
       IN IF \/ selected_indices = {}
             \/ name = <<>>
             \/ op = "divide" /\ Len(targets) # 2
          THEN UNCHANGED transVars
          ELSE LET transformation == [new_col |-> name, op |-> op, targets |-> targets]
               IN \E done \in {ReapplyTransformations(
                                   df, Append(transformations, transformation),
                                   Append(tree, TreeValues(transformation)), <<>>)} :
                     /\ transformations' = done.transformations
                     /\ tree' = done.tree
                     /\ transformed_df' = done.transformed_df
                     /\ reverted' = done.reverted
    /\ UNCHANGED <<walkVars, smoothVars, rateVars, errVars, genVars, convVars>>

\* _remove_transformation: drop from the list every entry named like a
\* selected row, delete the selected rows, then re-apply
RemoveTransformation(selected_items) ==
    /\ pc = "trans_idle"
    /\ IF selected_items = {}
       THEN UNCHANGED transVars
       ELSE LET names == {tree[i][1] : i \in selected_items}
                kept == SelectSeq(transformations, LAMBDA t : t.new_col \notin names)
                positions == SelectSeq([i \in 1..Len(tree) |-> i],
                                       LAMBDA i : i \notin selected_items)
                rows == [k \in 1..Len(positions) |-> tree[positions[k]]]
            IN \E done \in {ReapplyTransformations(df, kept, rows, <<>>)} :
                  /\ transformations' = done.transformations
                  /\ tree' = done.tree
                  /\ transformed_df' = done.transformed_df
                  /\ reverted' = done.reverted
    /\ UNCHANGED <<walkVars, smoothVars, rateVars, errVars, genVars, convVars>>

----------------------------------------------------------------------------
(* Inputs of the walk                                                      *)

\* a value that leaves more than DepletionLimit capacities in the stockpile
OutlierQty == (DepletionLimit + 2) * 50 + 1

Quantities == {-1} \cup (0..MaxQty)

Capacities == (1..MaxCap) \cup {50}

StartDates == {<<2025, 1>>, <<2025, 11>>}

RECURSIVE MonthsFrom(_, _)
\* n consecutive period labels starting at date d
MonthsFrom(d, n) ==
    IF n = 0 THEN <<>> ELSE <<Strftime(d)>> \o MonthsFrom(AddMonth(d), n - 1)

SeriesOf(d, values) ==
    LET labels == MonthsFrom(d, Len(values))
    IN [i \in 1..Len(values) |->
            [month |-> labels[i], reported_quantity |-> values[i]]]

Reverse(s) == [i \in 1..Len(s) |-> s[Len(s) + 1 - i]]

\* the series of the reference trace of the test suite
ReferenceValues == <<0, 50, 40, 60, 90, 75, 0>>

ReferenceSeries == SeriesOf(<<2025, 1>>, ReferenceValues)

\* a series of zeros with one outlier at position k
OutlierSeq(n, k) == [i \in 1..n |-> IF i = k THEN OutlierQty ELSE 0]

ValueSeqs ==
    UNION {[1..n -> Quantities] : n \in 0..MaxLen}
      \cup {OutlierSeq(n, k) : n \in 1..MaxLen, k \in 1..MaxLen}

WalkInputs ==
    {SeriesOf(d, v) : d \in StartDates, v \in ValueSeqs}
      \cup {Reverse(SeriesOf(d, v)) : d \in StartDates, v \in ValueSeqs}
      \cup {ReferenceSeries}

WalkInit ==
    /\ pc = "walk_begin"
    /\ monthly_data \in WalkInputs
    /\ threshold \in Capacities
    /\ source_df = <<>>
    /\ idx = 1
    /\ stockpile = 0
    /\ results = <<>>
    /\ current_date = <<0, 0>>
    /\ iteration_count = 0
    /\ warned = FALSE
    /\ returned = "none"
    /\ df = Table(<<>>, <<>>)
    /\ grouping_cols = <<>>
    /\ row_idx = 1
    /\ all_results = <<>>
    /\ raised = "none"
    /\ si_rate_col = <<>>
    /\ validation_result = <<>>
    /\ df_transformed = Table(<<>>, <<>>)
    /\ error_message = <<>>
    /\ target_cols = <<>>
    /\ new_col_name = <<>>
    /\ operation = <<>>
    /\ cast_df = Table(<<>>, <<>>)
    /\ rate_str = <<>>
    /\ parsed = <<>>
    /\ si = <<>>
    /\ transformations = <<>>
    /\ tree = <<>>
    /\ transformed_df = Table(<<>>, <<>>)
    /\ reverted = <<>>

WalkNext ==
    \/ WalkBegin
    \/ WalkObserve
    \/ WalkEndObserved
    \/ WalkDeplete
    \/ WalkEndDepletion

SpecWalk == WalkInit /\ [][WalkNext]_vars

----------------------------------------------------------------------------
(* Inputs of smooth_data_with_stockpile                                    *)

ColG == <<"G">>

\* the grouping value of row r: "A", "B", ...
GroupKey(r) == Str(<<Alphabet[14 + r]>>)

SmoothCells == {Null, Num(-1), Num(0), Num(3)}

\* below the largest cell value, and equal to it
SmoothCapacities == {1, 3}

\* period columns of the enumerated tables, not always in sorted order
SmoothMonthLists ==
    {<<>>, <<Strftime(<<2025, 11>>)>>, <<Strftime(<<2025, 12>>), Strftime(<<2025, 11>>)>>}

\* the tables with n rows: one grouping column, then the period columns
SmoothTables(n) ==
    UNION {{Table(<<ColG>> \o months,
                  [r \in 1..n |-> <<GroupKey(r)>> \o cells[r]]) :
               cells \in [1..n -> [1..Len(months) -> SmoothCells]]} :
           months \in SmoothMonthLists}

\* the same table carrying the ID column of aggregate_data in front
WithID(table) ==
    Table(<<ColID>> \o table.columns,
          [r \in 1..Height(table) |-> <<table.rows[r][1]>> \o table.rows[r]])

SmoothInputs ==
    LET plain == UNION {SmoothTables(n) : n \in 0..MaxRows}
    IN plain \cup {WithID(t) : t \in plain}

SmoothInit ==
    /\ pc = "smooth_begin"
    /\ df \in SmoothInputs
    /\ grouping_cols = <<ColG>>
    /\ threshold \in SmoothCapacities
    /\ row_idx = 1
    /\ all_results = <<>>
    /\ raised = "none"
    /\ returned = "none"
    /\ monthly_data = <<>>
    /\ source_df = <<>>
    /\ idx = 1
    /\ stockpile = 0
    /\ results = <<>>
    /\ current_date = <<0, 0>>
    /\ iteration_count = 0
    /\ warned = FALSE
    /\ si_rate_col = <<>>
    /\ validation_result = <<>>
    /\ df_transformed = Table(<<>>, <<>>)
    /\ error_message = <<>>
    /\ target_cols = <<>>
    /\ new_col_name = <<>>
    /\ operation = <<>>
    /\ cast_df = Table(<<>>, <<>>)
    /\ rate_str = <<>>
    /\ parsed = <<>>
    /\ si = <<>>
    /\ transformations = <<>>
    /\ tree = <<>>
    /\ transformed_df = Table(<<>>, <<>>)
    /\ reverted = <<>>

SmoothNext ==
    \/ SmoothBegin
    \/ SmoothRow
    \/ SmoothFinish

SpecSmooth == SmoothInit /\ [][SmoothNext]_vars

----------------------------------------------------------------------------
(* Inputs of _validate_rate_consistency                                  *)

ColRate == <<"R">>

\* rate strings: equal numbers written differently, a spread of 0.005, a
\* spread of 0.02, text without a leading number, and a missing rate
RateCells ==
    {Str(<<"1", ".", "5", "m">>), Str(<<"1", ".", "5", "0", "m">>),
     Str(<<"1", ".", "5", "0", "5", "m">>), Str(<<"1", ".", "5", "2", "m">>),
     Str(<<"N", "/", "A">>), Null}

RateKeys == {Str(<<"A">>), Str(<<"B">>)}

RateTables ==
    {Table(<<ColG, ColRate>>, rows) :
        rows \in UNION {[1..n -> {<<k, c>> : k \in RateKeys, c \in RateCells}] :
                           n \in 1..MaxRateRows}}

RateInit ==
    /\ pc = "rate_begin"
    /\ df \in RateTables
    /\ grouping_cols = <<ColG>>
    /\ si_rate_col = ColRate
    /\ validation_result = <<>>
    /\ df_transformed = Table(<<>>, <<>>)
    /\ threshold = 1
    /\ row_idx = 1
    /\ all_results = <<>>
    /\ raised = "none"
    /\ returned = "none"
    /\ monthly_data = <<>>
    /\ source_df = <<>>
    /\ idx = 1
    /\ stockpile = 0
    /\ results = <<>>
    /\ current_date = <<0, 0>>
    /\ iteration_count = 0
    /\ warned = FALSE
    /\ error_message = <<>>
    /\ target_cols = <<>>
    /\ new_col_name = <<>>
    /\ operation = <<>>
    /\ cast_df = Table(<<>>, <<>>)
    /\ rate_str = <<>>
    /\ parsed = <<>>
    /\ si = <<>>
    /\ transformations = <<>>
    /\ tree = <<>>
    /\ transformed_df = Table(<<>>, <<>>)
    /\ reverted = <<>>

RateNext ==
    \/ RateExtract
    \/ RateCheck

SpecRate == RateInit /\ [][RateNext]_vars

----------------------------------------------------------------------------
(* Inputs of aggregate_data                                               *)

ColLoc == <<"L">>

ColMat == <<"M">>

\* grouping-key tuples (Location, Material)
AggKeys ==
    {<<Str(<<"A", "-", "B">>), Str(<<"C">>)>>,
     <<Str(<<"A">>), Str(<<"B", "-", "C">>)>>,
     <<Str(<<"A">>), Str(<<"C">>)>>}

\* start dates: October and February of one year, and text that is no date
AggDates ==
    {Str(<<"2", "0", "2", "5", "-", "1", "0", "-", "0", "3">>),
     Str(<<"2", "0", "2", "5", "-", "0", "2", "-", "1", "0">>),
     Str(<<"N", "/", "A">>)}

\* driver and rate of a row
AggPayloads ==
    {<<Num(2), Str(<<"1", ".", "5", "m">>)>>,
     <<Str(<<"5">>), Str(<<"N", "/", "A">>)>>,
     <<Str(<<"x">>), Str(<<"1", ".", "5", "2", "m">>)>>}

AggRows == {k \o <<d>> \o p : k \in AggKeys, d \in AggDates, p \in AggPayloads}

AggTables ==
    {Table(<<ColLoc, ColMat, ColStart, ColDriver, ColRate>>, rows) :
        rows \in UNION {[1..n -> AggRows] : n \in 0..MaxAggRows}}

AggInit ==
    /\ pc = "agg_begin"
    /\ df \in AggTables
    /\ grouping_cols = <<ColLoc, ColMat>>
    /\ si_rate_col \in {<<>>, ColRate}
    /\ validation_result = <<>>
    /\ df_transformed = Table(<<>>, <<>>)
    /\ threshold = 1
    /\ row_idx = 1
    /\ all_results = <<>>
    /\ raised = "none"
    /\ returned = "none"
    /\ monthly_data = <<>>
    /\ source_df = <<>>
    /\ idx = 1
    /\ stockpile = 0
    /\ results = <<>>
    /\ current_date = <<0, 0>>
    /\ iteration_count = 0
    /\ warned = FALSE
    /\ error_message = <<>>
    /\ target_cols = <<>>
    /\ new_col_name = <<>>
    /\ operation = <<>>
    /\ cast_df = Table(<<>>, <<>>)
    /\ rate_str = <<>>
    /\ parsed = <<>>
    /\ si = <<>>
    /\ transformations = <<>>
    /\ tree = <<>>
    /\ transformed_df = Table(<<>>, <<>>)
    /\ reverted = <<>>

AggNext ==
    \/ AggValidateColumns
    \/ AggPreprocess
    \/ AggValidateRate
    \/ AggPivot

SpecAgg == AggInit /\ [][AggNext]_vars

----------------------------------------------------------------------------
(* aggregate_data followed by smooth_data_with_stockpile                  *)

\* smooth_data_with_stockpile(df=aggregate_data(...), grouping_cols,
\* driver_threshold): the table aggregate_data returned is passed as it is
SmoothAggregated ==
    /\ pc = "agg_done"
    /\ raised = "none"
    /\ df' = returned
    /\ pc' = "smooth_begin"
    /\ returned' = "none"
    /\ row_idx' = 1
    /\ all_results' = <<>>
    /\ UNCHANGED <<grouping_cols, threshold, raised>>
    /\ UNCHANGED <<walkLocals, rateVars>>
    /\ UNCHANGED <<errVars, genVars, convVars, transVars>>

MaxPipeRows == 2

\* two groups
AggSmoothKeys ==
    {<<Str(<<"A">>), Str(<<"B">>)>>, <<Str(<<"A">>), Str(<<"C">>)>>}

\* October and February of one year
AggSmoothDates ==
    {Str(<<"2", "0", "2", "5", "-", "1", "0", "-", "0", "3">>),
     Str(<<"2", "0", "2", "5", "-", "0", "2", "-", "1", "0">>)}

\* driver and rate of a row: a rate, no rate, and nothing to report
AggSmoothPayloads ==
    {<<Num(2), Str(<<"1", ".", "5", "m">>)>>,
     <<Num(2), Null>>,
     <<Num(0), Str(<<"N", "/", "A">>)>>}

AggSmoothRows ==
    {k \o <<d>> \o p : k \in AggSmoothKeys, d \in AggSmoothDates,
                        p \in AggSmoothPayloads}

AggSmoothTables ==
    {Table(<<ColLoc, ColMat, ColStart, ColDriver, ColRate>>, rows) :
        rows \in UNION {[1..n -> AggSmoothRows] : n \in 0..MaxPipeRows}}

AggSmoothInit ==
    /\ pc = "agg_begin"
    /\ df \in AggSmoothTables
    /\ grouping_cols = <<ColLoc, ColMat>>
    /\ si_rate_col \in {<<>>, ColRate}
    /\ validation_result = <<>>
    /\ df_transformed = Table(<<>>, <<>>)
    /\ threshold = 1
    /\ row_idx = 1
    /\ all_results = <<>>
    /\ raised = "none"
    /\ returned = "none"
    /\ monthly_data = <<>>
    /\ source_df = <<>>
    /\ idx = 1
    /\ stockpile = 0
    /\ results = <<>>
    /\ current_date = <<0, 0>>
    /\ iteration_count = 0
    /\ warned = FALSE
    /\ error_message = <<>>
    /\ target_cols = <<>>
    /\ new_col_name = <<>>
    /\ operation = <<>>
    /\ cast_df = Table(<<>>, <<>>)
    /\ rate_str = <<>>
    /\ parsed = <<>>
    /\ si = <<>>
    /\ transformations = <<>>
    /\ tree = <<>>
    /\ transformed_df = Table(<<>>, <<>>)
    /\ reverted = <<>>

AggSmoothNext ==
    \/ AggNext
    \/ SmoothAggregated
    \/ SmoothNext

SpecAggSmooth == AggSmoothInit /\ [][AggSmoothNext]_vars

----------------------------------------------------------------------------
(* Inputs of aggregate_data: tables that lack some of their columns        *)

MaxColRows == 1

\* the table without the columns named in dropped
DropColumns(table, dropped) == Select(table, Without(table.columns, dropped))

RECURSIVE SeqOfSet(_)
\* the column names of a set, in some fixed order
SeqOfSet(S) ==
    IF S = {} THEN <<>>
    ELSE LET x == CHOOSE y \in S : TRUE IN <<x>> \o SeqOfSet(S \ {x})

\* rows of one group: a dated and an undated row, with each payload
AggColRows ==
    {<<Str(<<"A">>), Str(<<"C">>)>> \o <<d>> \o p : d \in AggDates, p \in AggPayloads}

AggColTables ==
    {DropColumns(Table(<<ColLoc, ColMat, ColStart, ColDriver, ColRate>>, rows),
                 SeqOfSet(dropped)) :
        rows \in UNION {[1..n -> AggColRows] : n \in 0..MaxColRows},
        dropped \in SUBSET {ColLoc, ColMat, ColStart, ColDriver, ColRate}}

AggColsInit ==
    /\ pc = "agg_begin"
    /\ df \in AggColTables
    /\ grouping_cols = <<ColLoc, ColMat>>
    /\ si_rate_col \in {<<>>, ColRate}
    /\ validation_result = <<>>
    /\ df_transformed = Table(<<>>, <<>>)
    /\ threshold = 1
    /\ row_idx = 1
    /\ all_results = <<>>
    /\ raised = "none"
    /\ returned = "none"
    /\ monthly_data = <<>>
    /\ source_df = <<>>
    /\ idx = 1
    /\ stockpile = 0
    /\ results = <<>>
    /\ current_date = <<0, 0>>
    /\ iteration_count = 0
    /\ warned = FALSE
    /\ error_message = <<>>
    /\ target_cols = <<>>
    /\ new_col_name = <<>>
    /\ operation = <<>>
    /\ cast_df = Table(<<>>, <<>>)
    /\ rate_str = <<>>
    /\ parsed = <<>>
    /\ si = <<>>
    /\ transformations = <<>>
    /\ tree = <<>>
    /\ transformed_df = Table(<<>>, <<>>)
    /\ reverted = <<>>

SpecAggCols == AggColsInit /\ [][AggNext]_vars

----------------------------------------------------------------------------
(* Inputs of generate_new_column                                           *)

MaxGenRows == 1

ColA == <<"A">>

ColB == <<"B">>

ColT == <<"T">>

ColZ == <<"Z">>

ColN == <<"N">>

\* a numeric column with nulls, a numeric column, and a text column
GenRows ==
    {<<a, b, t>> : a \in {Null, Num(0), Num(6)},
                   b \in {Num(0), Num(4)},
                   t \in {Null, Str(<<"5">>), Str(<<"x">>)}}

GenTables ==
    {Table(<<ColA, ColB, ColT>>, rows) :
        rows \in UNION {[1..n -> GenRows] : n \in 0..MaxGenRows}}

\* lists of distinct column names, the last two naming a column the table lacks
GenTargetLists ==
    {s \in UNION {[1..n -> {ColA, ColB, ColT}] : n \in 0..3} :
        \A i, j \in 1..Len(s) : s[i] = s[j] => i = j}
    \cup {<<ColZ>>, <<ColA, ColZ>>}

GenOperations == SupportedOperations \cup {"average"}

GenInit ==
    /\ pc = "gen_begin"
    /\ df \in GenTables
    /\ target_cols \in GenTargetLists
    /\ new_col_name \in {ColN, ColA}
    /\ operation \in GenOperations
    /\ cast_df = Table(<<>>, <<>>)
    /\ grouping_cols = <<>>
    /\ si_rate_col = <<>>
    /\ validation_result = <<>>
    /\ df_transformed = Table(<<>>, <<>>)
    /\ threshold = 1
    /\ row_idx = 1
    /\ all_results = <<>>
    /\ raised = "none"
    /\ returned = "none"
    /\ monthly_data = <<>>
    /\ source_df = <<>>
    /\ idx = 1
    /\ stockpile = 0
    /\ results = <<>>
    /\ current_date = <<0, 0>>
    /\ iteration_count = 0
    /\ warned = FALSE
    /\ error_message = <<>>
    /\ rate_str = <<>>
    /\ parsed = <<>>
    /\ si = <<>>
    /\ transformations = <<>>
    /\ tree = <<>>
    /\ transformed_df = Table(<<>>, <<>>)
    /\ reverted = <<>>

GenNext ==
    \/ GenCheckArguments
    \/ GenCast
    \/ GenApply

SpecGen == GenInit /\ [][GenNext]_vars

----------------------------------------------------------------------------
(* Inputs of convert_rate_to_monthly_si                                    *)

MaxWhole == 2      \* largest whole part of an enumerated rate value

\* the number part: well-formed values, and texts float() rejects
ConvNumbers ==
    {IntToDigits(w) \o f : w \in 0..MaxWhole, f \in {<<>>, <<".">>, <<".", "5">>}}
    \cup {<<".">>, <<".", "5">>, <<"1", ".", "2", ".", "3">>}

\* unit tokens: aliased, upper case, unknown to the registry, and absent
ConvUnits ==
    {<<"f", "t">>, <<"F", "T">>, <<"f", "t", "p">>, <<"m">>, <<"d", "m">>,
     <<"t">>, <<"l">>, <<"x", "y", "z">>, <<>>}

\* period tokens: known, upper case, unknown, and absent
ConvPeriods ==
    {<<"w">>, <<"d">>, <<"y">>, <<"m", "o">>, <<"W">>, <<"q">>, <<>>}

ConvSeparators == {<<"/">>, <<" ", "/", " ">>, <<>>}

\* arguments: composed rate texts, the malformed texts of the tests, and
\* values that are not text
ConvArguments ==
    {Str(pad \o n \o u \o sep \o p \o pad) :
        pad \in {<<>>, <<" ">>}, n \in ConvNumbers, u \in ConvUnits,
        sep \in ConvSeparators, p \in ConvPeriods}
    \cup {Str(<<"i", "n", "v", "a", "l", "i", "d", "_", "f", "o", "r", "m", "a", "t">>),
          Str(<<"5", "0", "/">>),
          Str(<<"a", "b", "c", "/", "m", "o">>),
          Null, Num(5)}

ConvInit ==
    /\ pc = "conv_begin"
    /\ rate_str \in ConvArguments
    /\ parsed = <<>>
    /\ si = <<>>
    /\ transformations = <<>>
    /\ tree = <<>>
    /\ transformed_df = Table(<<>>, <<>>)
    /\ reverted = <<>>
    /\ df = Table(<<>>, <<>>)
    /\ target_cols = <<>>
    /\ new_col_name = <<>>
    /\ operation = <<>>
    /\ cast_df = Table(<<>>, <<>>)
    /\ grouping_cols = <<>>
    /\ si_rate_col = <<>>
    /\ validation_result = <<>>
    /\ df_transformed = Table(<<>>, <<>>)
    /\ threshold = 1
    /\ row_idx = 1
    /\ all_results = <<>>
    /\ raised = "none"
    /\ returned = "none"
    /\ monthly_data = <<>>
    /\ source_df = <<>>
    /\ idx = 1
    /\ stockpile = 0
    /\ results = <<>>
    /\ current_date = <<0, 0>>
    /\ iteration_count = 0
    /\ warned = FALSE
    /\ error_message = <<>>

ConvNext ==
    \/ ConvParse
    \/ ConvUnit
    \/ ConvFormat

SpecConv == ConvInit /\ [][ConvNext]_vars

----------------------------------------------------------------------------
(* Inputs of TransformationStage                                          *)

\* the sheet: columns out of alphabetical order, a text column and a numeric
\* one that may hold a null
TransTables ==
    {Table(<<ColT, ColA>>, <<<<Str(<<"5">>), Null>>>>),
     Table(<<ColT, ColA>>, <<<<Str(<<"x">>), Num(6)>>>>)}

\* what the entry can hold: nothing, two new names, one of them also with a
\* leading blank, and the name of a column of the sheet
TransEntryTexts == {<<>>, ColN, <<" ", "N">>, <<"P">>, ColA}

TransInit ==
    /\ pc = "trans_idle"
    /\ df \in TransTables
    /\ transformations = <<>>
    /\ tree = <<>>
    /\ transformed_df = df
    /\ reverted = <<>>
    /\ rate_str = <<>>
    /\ parsed = <<>>
    /\ si = <<>>
    /\ target_cols = <<>>
    /\ new_col_name = <<>>
    /\ operation = <<>>
    /\ cast_df = Table(<<>>, <<>>)
    /\ grouping_cols = <<>>
    /\ si_rate_col = <<>>
    /\ validation_result = <<>>
    /\ df_transformed = Table(<<>>, <<>>)
    /\ threshold = 1
    /\ row_idx = 1
    /\ all_results = <<>>
    /\ raised = "none"
    /\ returned = "none"
    /\ monthly_data = <<>>
    /\ source_df = <<>>
    /\ idx = 1
    /\ stockpile = 0
    /\ results = <<>>
    /\ current_date = <<0, 0>>
    /\ iteration_count = 0
    /\ warned = FALSE
    /\ error_message = <<>>

TransNext ==
    \/ \E selected_indices \in SUBSET (1..Len(df.columns)) :
       \E op \in SupportedOperations :
       \E text \in TransEntryTexts :
          AddTransformation(selected_indices, op, text)
    \/ \E selected_items \in SUBSET (1..Len(tree)) :
          RemoveTransformation(selected_items)

SpecTrans == TransInit /\ [][TransNext]_vars

----------------------------------------------------------------------------
(* Properties of the stockpile walk                                        *)

RECURSIVE SumReportedRange(_, _, _)
\* the sum of reported_quantity over rows[lo..hi], by halves
SumReportedRange(rows, lo, hi) ==
    IF lo > hi THEN 0
    ELSE IF lo = hi THEN rows[lo].reported_quantity
    ELSE LET mid == (lo + hi) \div 2
         IN SumReportedRange(rows, lo, mid) + SumReportedRange(rows, mid + 1, hi)

SumReported(rows) == SumReportedRange(rows, 1, Len(rows))

RECURSIVE SumActualRange(_, _, _)
\* the sum of actual_quantity over rows[lo..hi], by halves
SumActualRange(rows, lo, hi) ==
    IF lo > hi THEN 0
    ELSE IF lo = hi THEN rows[lo].actual_quantity
    ELSE LET mid == (lo + hi) \div 2
         IN SumActualRange(rows, lo, mid) + SumActualRange(rows, mid + 1, hi)

SumActual(rows) == SumActualRange(rows, 1, Len(rows))

NonNegative(rows) == \A i \in 1..Len(rows) : rows[i].reported_quantity >= 0

\* the stockpile left after the last observed period, read off the returned list
LeftAfterObserved ==
    SumReported(monthly_data) - SumActual(SubSeq(returned, 1, Len(monthly_data)))

\* C1 (as stated): for every non-negative series and positive capacity the sum
\* of the reported quantities of the original series equals the sum of the
\* actual quantities of the returned series, synthesized periods included.
C1_ConservationOfMass ==
    (pc = "walk_done" /\ NonNegative(monthly_data))
        => SumReported(monthly_data) = SumActual(returned)

\* C1 (amended): the sum of reported equals the sum of actual plus the residual
\* stockpile abandoned at the 120-period ceiling; that residual is zero, so the
\* two sums are equal, exactly when the stockpile left after the last observed
\* period is at most 120 capacities.
C1_ConservationUpToResidual ==
    (pc = "walk_done" /\ NonNegative(monthly_data))
        => /\ SumReported(monthly_data) = SumActual(returned) + stockpile
           /\ (LeftAfterObserved <= DepletionLimit * threshold)
                 <=> (SumReported(monthly_data) = SumActual(returned))

C1_Witness ==
    /\ pc = "walk_done"
    /\ NonNegative(monthly_data)
    /\ iteration_count > 1
    /\ stockpile = 0
    /\ SumReported(monthly_data) = SumActual(returned)

WalkRank ==
    CASE pc = "walk_begin" -> Len(monthly_data) + DepletionLimit + 3
      [] pc = "walk_observe" -> (Len(source_df) + 1 - idx) + DepletionLimit + 2
      [] pc = "walk_deplete" -> (DepletionLimit - iteration_count) + 1
      [] OTHER -> 0

\* C3: the depletion synthesizes at most 120 periods however large the
\* leftover stockpile; every step of the walk strictly decreases a
\* non-negative bound on the steps left, so the walk terminates; and at the
\* ceiling it returns its list normally with a warning.
C3_DepletionTerminates ==
    /\ [](/\ iteration_count <= DepletionLimit
          /\ Len(results) <= Len(monthly_data) + DepletionLimit
          /\ WalkRank >= 0
          /\ (pc = "walk_done") => returned = results
          /\ (pc = "walk_done" /\ stockpile > 0)
                => /\ warned
                   /\ Len(returned) = Len(monthly_data) + DepletionLimit)
    /\ [][WalkRank' < WalkRank]_vars

C3_Witness ==
    /\ pc = "walk_done"
    /\ stockpile > 0
    /\ iteration_count = DepletionLimit
    /\ warned
    /\ returned = results

ReferenceActual == <<0, 50, 40, 50, 50, 50, 50, 25>>

ReferenceReported == ReferenceValues \o <<0>>

ReferenceResult ==
    LET labels == MonthsFrom(<<2025, 1>>, 8)
    IN [i \in 1..8 |->
           [month |-> labels[i],
            reported_quantity |-> ReferenceReported[i],
            actual_quantity |-> ReferenceActual[i]]]

\* C4: the reference trace [0, 50, 40, 60, 90, 75, 0] from 2025-01 with
\* capacity 50 yields [0, 50, 40, 50, 50, 50, 50], one synthesized period
\* 2025-08 with 25, a stockpile of exactly 0, and no later period.
C4_ReferenceTrace ==
    (pc = "walk_done" /\ monthly_data = ReferenceSeries /\ threshold = 50)
        => /\ returned = ReferenceResult
           /\ returned[8].month = <<"2", "0", "2", "5", "-", "0", "8">>
           /\ stockpile = 0

C4_Witness ==
    /\ pc = "walk_done"
    /\ monthly_data = ReferenceSeries
    /\ threshold = 50
    /\ iteration_count = 1

----------------------------------------------------------------------------
(* Properties of smooth_data_with_stockpile                                *)

\* the reported series of row r of the input is entirely zero or missing
AllZeroRow(r) ==
    \A i \in 1..Len(MonthCols(df, grouping_cols)) :
        LET cell == Cell(df, MonthCols(df, grouping_cols)[i], r)
        IN cell.t = "null" \/ cell.n = 0

\* the smoothed output has a row for the group of input row r
HasOutputRow(r) ==
    \E q \in 1..Height(returned) :
        GroupValues(returned, grouping_cols, q) = GroupValues(df, grouping_cols, r)

SmoothReturnedTable ==
    pc = "smooth_done" /\ raised = "none" /\ MonthCols(df, grouping_cols) # <<>>

\* C5: a group whose reported series is entirely zero (or missing) produces
\* no row in the smoothed output, and every other group's row is produced.
C5_AllZeroGroupSkipped ==
    SmoothReturnedTable
        => \A r \in 1..Height(df) : AllZeroRow(r) <=> ~HasOutputRow(r)
----------------------------------------------------------------------------
(* Properties of _validate_rate_consistency                              *)

RateResult == validation_result[1]

\* the groups of the input that have a parsable rate
ParsableKeys == {GroupValues(df, grouping_cols, r) : r \in ParsableRows(df, si_rate_col)}

AllKeys == {GroupValues(df, grouping_cols, r) : r \in 1..Height(df)}

\* the rule of the claim, read off the raw input: more than one distinct raw
\* string and a numeric spread above 0.01 among the group's parsable rows
VariableByRule(key) ==
    LET rows == GroupRows(df, grouping_cols, ParsableRows(df, si_rate_col), key)
    IN /\ \E r1, r2 \in rows : Cell(df, si_rate_col, r1).s # Cell(df, si_rate_col, r2).s
       /\ \E r1, r2 \in rows :
             NumericRate(Cell(df, si_rate_col, r1)).v
                - NumericRate(Cell(df, si_rate_col, r2)).v > RateEpsilon

\* C9: is_consistent is False exactly when some group has, among its rows
\* with a parsable rate, more than one distinct raw string and a spread
\* above 0.01; the detail table holds exactly the variable groups and is
\* absent when there are none.
C9_RateVariabilityRule ==
    (pc = "rate_done")
        => /\ RateResult.is_consistent <=> ~(\E key \in ParsableKeys : VariableByRule(key))
           /\ RateResult.is_consistent <=> (RateResult.variable_groups_df = <<>>)
           /\ RateResult.variable_groups_df # <<>>
                 => LET qa == RateResult.variable_groups_df[1]
                    IN /\ {qa[i].group : i \in 1..Len(qa)}
                            = {key \in ParsableKeys : VariableByRule(key)}
                       /\ \A i, j \in 1..Len(qa) : i # j => qa[i].group # qa[j].group

C9_Witness ==
    /\ pc = "rate_done"
    /\ ~RateResult.is_consistent
    /\ Len(RateResult.variable_groups_df[1]) = 1
    /\ \E key \in ParsableKeys : ~VariableByRule(key)
    /\ RateResult.unparsable_rate_count = 0

\* C10: for every input table the validator returns a representative-rate
\* table with exactly one row for every group of the table, also for a group
\* whose rates are all unparsable (its row holds the first raw string).
C10_RepresentativeRateAlwaysPresent ==
    (pc = "rate_done")
        => /\ RateResult.rate_descriptors_df # <<>>
           /\ LET rd == RateResult.rate_descriptors_df[1]
              IN /\ {GroupValues(rd, grouping_cols, q) : q \in 1..Height(rd)} = AllKeys
                 /\ Height(rd) = Cardinality(AllKeys)
                 /\ \A q \in 1..Height(rd) :
                       Cell(rd, ColFirstRate, q)
                         = Cell(df, si_rate_col,
                                SetMin(GroupRows(df, grouping_cols, 1..Height(df),
                                                 GroupValues(rd, grouping_cols, q))))
----------------------------------------------------------------------------
(* Properties of aggregate_data                                           *)

AggReturned == pc = "agg_done" /\ raised = "none"

\* the rows of the input whose start date parses: the preprocessed rows
DatedRows == {r \in 1..Height(df) : ParsedDate(Cell(df, ColStart, r)).t = "date"}

\* the period label and the <<year, month>> of a dated input row
LabelOfRow(r) == MonthPeriod(ParsedDate(Cell(df, ColStart, r))).s

YearMonthOfRow(r) ==
    LET n == ParsedDate(Cell(df, ColStart, r)).n
    IN <<n \div 10000, (n \div 100) % 100>>

\* the dated input rows of a group and period label
Contributing(key, label) ==
    {r \in DatedRows : GroupValues(df, grouping_cols, r) = key /\ LabelOfRow(r) = label}

\* the columns of the output after the ID, grouping and rate columns
OutPeriodCols == Without(returned.columns, <<ColID>> \o grouping_cols \o <<ColRate>>)

RECURSIVE SumOfRows(_)
\* the sum of the numeric driver values of a set of input rows
SumOfRows(rows) ==
    IF rows = {} THEN 0
    ELSE LET r == SetMin(rows)
         IN NumericDriver(Cell(df, ColDriver, r)).n + SumOfRows(rows \ {r})

\* C6: in the table returned by aggregate_data every cell of every period
\* column holds a number, zero when no input row contributes to it.
C6_PivotDensity ==
    AggReturned
        => \A r \in 1..Height(returned) : \A c \in 1..Len(OutPeriodCols) :
              LET cell == Cell(returned, OutPeriodCols[c], r)
              IN /\ cell.t = "num"
                 /\ Contributing(GroupValues(returned, grouping_cols, r), OutPeriodCols[c]) = {}
                       => cell.n = 0

C6_Witness ==
    /\ AggReturned
    /\ Height(returned) = 2
    /\ Len(OutPeriodCols) = 2
    /\ \E r \in 1..2 : \E c \in 1..2 :
          /\ Contributing(GroupValues(returned, grouping_cols, r), OutPeriodCols[c]) = {}
          /\ Cell(returned, OutPeriodCols[c], r) = Num(0)

\* C7: one row per distinct grouping-key tuple and one period column per
\* distinct period label of the rows whose start date parses; each cell is
\* the sum of the numeric driver values (unparsable or missing as 0) of the
\* dated rows of that group and period; undated rows contribute nowhere.
C7_PivotSemantics ==
    AggReturned
        => /\ {GroupValues(returned, grouping_cols, r) : r \in 1..Height(returned)}
                = {GroupValues(df, grouping_cols, r) : r \in DatedRows}
           /\ Height(returned)
                = Cardinality({GroupValues(df, grouping_cols, r) : r \in DatedRows})
           /\ {OutPeriodCols[c] : c \in 1..Len(OutPeriodCols)}
                = {LabelOfRow(r) : r \in DatedRows}
           /\ Len(OutPeriodCols) = Cardinality({LabelOfRow(r) : r \in DatedRows})
           /\ \A r \in 1..Height(returned) : \A c \in 1..Len(OutPeriodCols) :
                 Cell(returned, OutPeriodCols[c], r)
                   = Num(SumOfRows(Contributing(GroupValues(returned, grouping_cols, r),
                                                OutPeriodCols[c])))

C7_Witness ==
    /\ AggReturned
    /\ Height(df) = 2
    /\ Cardinality(DatedRows) = 2
    /\ Height(returned) = 1
    /\ Len(OutPeriodCols) = 1
    /\ Cell(returned, OutPeriodCols[1], 1) = Num(7)

\* C8: the columns of the output are the ID column, the grouping columns in
\* declared order, the rate column (only when a rate was validated), then
\* the period columns in ascending lexical order of their labels, which is
\* their chronological order; no other column stands among the periods.
C8_ColumnOrdering ==
    AggReturned
        => LET has_rate == InSeq(ColRate, returned.columns)
               head == <<ColID>> \o grouping_cols
                          \o (IF has_rate THEN <<ColRate>> ELSE <<>>)
               periods == SubSeq(returned.columns, Len(head) + 1, Len(returned.columns))
               year_month(label) ==
                   YearMonthOfRow(CHOOSE r \in DatedRows : LabelOfRow(r) = label)
           IN /\ has_rate => (si_rate_col = ColRate /\ validation_result # <<>>)
              /\ SubSeq(returned.columns, 1, Len(head)) = head
              /\ \A c \in 1..Len(periods) :
                    \E r \in DatedRows : LabelOfRow(r) = periods[c]
              /\ \A c1, c2 \in 1..Len(periods) :
                    c1 < c2 => /\ StrLess(periods[c1], periods[c2])
                               /\ DateBefore(year_month(periods[c1]), year_month(periods[c2]))

C8_Witness ==
    /\ AggReturned
    /\ InSeq(ColRate, returned.columns)
    /\ Len(returned.columns) = 6
    /\ Height(df) = 2
    /\ DateBefore(YearMonthOfRow(2), YearMonthOfRow(1))

\* the rate cell of the first dated input row of a group
FirstRateOfGroup(key) ==
    Cell(df, ColRate, SetMin({r \in DatedRows : GroupValues(df, grouping_cols, r) = key}))

\* the aggregation ran with a rate column and kept at least one row
RateRequested == AggReturned /\ si_rate_col = ColRate /\ DatedRows # {}

\* C11: the representative rate of a group is the rate string of the first
\* row of the group in the preprocessed table, variable or not, parsable or
\* not, and it is the value joined into the group's row of the output.
C11_RepresentativeRateValue ==
    RateRequested
        => /\ InSeq(ColRate, returned.columns)
           /\ \A r \in 1..Height(returned) :
                 Cell(returned, ColRate, r)
                    = FirstRateOfGroup(GroupValues(returned, grouping_cols, r))

\* the same, for the runs in which the validator returned a descriptor table
C11_ValueWhereJoined ==
    (RateRequested /\ InSeq(ColRate, returned.columns))
        => \A r \in 1..Height(returned) :
              Cell(returned, ColRate, r)
                 = FirstRateOfGroup(GroupValues(returned, grouping_cols, r))

\* the rate cell is text that starts with a number: digits, or a minus sign
\* followed by a digit
LeadingNumber(cell) ==
    /\ cell.t = "str"
    /\ cell.s # <<>>
    /\ \/ IsDigit(cell.s[1])
       \/ cell.s[1] = "-" /\ Len(cell.s) > 1 /\ IsDigit(cell.s[2])

\* the dated input rows whose rate has no leading number
UnparsableDated == {r \in DatedRows : ~LeadingNumber(Cell(df, ColRate, r))}

\* two dated rows of one group, both with a leading number, whose strings
\* differ and whose numbers are more than 0.01 apart
VariablePair(r1, r2) ==
    /\ GroupValues(df, grouping_cols, r1) = GroupValues(df, grouping_cols, r2)
    /\ Cell(df, ColRate, r1).s # Cell(df, ColRate, r2).s
    /\ NumericRate(Cell(df, ColRate, r1)).v - NumericRate(Cell(df, ColRate, r2)).v
          > RateEpsilon

\* C12: rows whose rate has no leading numeric token take no part in the
\* variability check, unparsable_rate_count is the number of such rows, and
\* the rows stay in the data: their driver values are summed into the output.
C12_UnparsableRates ==
    RateRequested
        => /\ validation_result # <<>>
           /\ validation_result[1].unparsable_rate_count = Cardinality(UnparsableDated)
           /\ validation_result[1].is_consistent
                 <=> ~(\E r1, r2 \in DatedRows \ UnparsableDated : VariablePair(r1, r2))
           /\ \A r \in UnparsableDated :
                 \E q \in 1..Height(returned) :
                    /\ GroupValues(returned, grouping_cols, q)
                          = GroupValues(df, grouping_cols, r)
                    /\ InSeq(LabelOfRow(r), OutPeriodCols)
                    /\ Cell(returned, LabelOfRow(r), q)
                          = Num(SumOfRows(Contributing(GroupValues(df, grouping_cols, r),
                                                       LabelOfRow(r))))

C12_Witness ==
    /\ RateRequested
    /\ Cardinality(DatedRows) = 2
    /\ Cardinality(UnparsableDated) = 1
    /\ GroupValues(df, grouping_cols, 1) = GroupValues(df, grouping_cols, 2)
    /\ LabelOfRow(1) = LabelOfRow(2)
    /\ validation_result[1].is_consistent
    /\ validation_result[1].unparsable_rate_count = 1
    /\ Cell(returned, LabelOfRow(1), 1) = Num(7)

----------------------------------------------------------------------------
(* Properties of aggregate_data: errors and the empty result               *)

\* the grouping, start-date and driver columns the input table lacks
MissingSet ==
    {c \in {grouping_cols[i] : i \in 1..Len(grouping_cols)} \cup {ColStart, ColDriver} :
        ~InSeq(c, df.columns)}

\* C18: aggregate_data called with a grouping, start-date or driver column
\* absent raises an error before any preprocessing, the error names every
\* missing column in sorted order; with none missing no such error is raised.
C18_MissingColumnsError ==
    (pc = "agg_done")
        => /\ (MissingSet # {}) <=> (raised = "ValueError")
           /\ raised = "ValueError"
                 => /\ {error_message[i] : i \in 1..Len(error_message)} = MissingSet
                    /\ \A i, j \in 1..Len(error_message) :
                          i < j => StrLess(error_message[i], error_message[j])
                    /\ df_transformed = Table(<<>>, <<>>)
                    /\ validation_result = <<>>
                    /\ returned = "none"
           /\ raised # "ValueError" => error_message = <<>>

C18_Witness ==
    /\ pc = "agg_done"
    /\ raised = "ValueError"
    /\ Height(df) = 1
    /\ error_message = <<ColDriver, ColLoc, ColStart>>

RECURSIVE JoinedWith(_, _)
\* the strings of a key joined with a separator character between them
JoinedWith(key, sep) ==
    IF key = <<>> THEN <<>>
    ELSE IF Len(key) = 1 THEN key[1].s
    ELSE key[1].s \o <<sep>> \o JoinedWith(Tail(key), sep)

\* every output row's ID is its grouping values joined with "-"
IdIsJoinedKey ==
    \A r \in 1..Height(returned) :
        Cell(returned, ColID, r)
           = Str(JoinedWith(GroupValues(returned, grouping_cols, r), "-"))

\* C20: each output row's ID is its grouping-key values joined with "-" in
\* declared order, equal keys give equal IDs, and rows with different
\* grouping-key tuples never have the same ID.
C20_CompositeIdentifier ==
    AggReturned
        => /\ IdIsJoinedKey
           /\ \A r1, r2 \in 1..Height(returned) :
                 (GroupValues(returned, grouping_cols, r1)
                     = GroupValues(returned, grouping_cols, r2))
                    <=> (Cell(returned, ColID, r1) = Cell(returned, ColID, r2))

\* the part of C20 that does not speak of uniqueness
C20_IdFromKey ==
    AggReturned
        => /\ IdIsJoinedKey
           /\ \A r1, r2 \in 1..Height(returned) :
                 (GroupValues(returned, grouping_cols, r1)
                     = GroupValues(returned, grouping_cols, r2))
                    => (Cell(returned, ColID, r1) = Cell(returned, ColID, r2))
----------------------------------------------------------------------------
(* Properties of generate_new_column                                       *)

GenDone == pc = "gen_done"

GenSucceeded == GenDone /\ raised = "none"

GenFailed == GenDone /\ raised = "ValueError" /\ returned = "none"

SomeTargetMissing == \E i \in 1..Len(target_cols) : ~InSeq(target_cols[i], df.columns)

\* C13: generate_new_column ends with an error and no table when the target
\* list is empty, when the new name is already a column, when a target column
\* is not in the table, when the operation is none of sum, multiply, divide,
\* and when the operation is divide with a number of targets other than 2
C13_Preconditions ==
    GenDone =>
        /\ (target_cols = <<>>) => GenFailed
        /\ InSeq(new_col_name, df.columns) => GenFailed
        /\ SomeTargetMissing => GenFailed
        /\ (operation \notin {"sum", "multiply", "divide"}) => GenFailed
        /\ (operation = "divide" /\ Len(target_cols) # 2) => GenFailed

\* a divide over three present columns under a free name has ended in the error
C13_Witness ==
    /\ GenFailed
    /\ operation = "divide"
    /\ Len(target_cols) = 3
    /\ ~SomeTargetMissing
    /\ ~InSeq(new_col_name, df.columns)
    /\ Height(df) = 1
\* the number a target value stands for: a number is itself, text made of
\* digits is the number it spells, any other text and a missing value are 0
NumberAfterCoercion(cell) ==
    IF cell.t = "num" THEN cell.n
    ELSE IF cell.t = "str" /\ cell.s # <<>>
               /\ \A i \in 1..Len(cell.s) : \E k \in 1..10 : DigitChars[k] = cell.s[i]
         THEN IntOfDigits(cell.s)
         ELSE 0

DivideAccepted ==
    /\ GenDone
    /\ operation = "divide"
    /\ Len(target_cols) = 2
    /\ ~SomeTargetMissing
    /\ ~InSeq(new_col_name, df.columns)

\* C14: a divide over two present columns never raises; a row whose coerced
\* denominator is 0 gets a missing value in the new column, and any other row
\* gets the quotient of the coerced numerator by the coerced denominator
C14_DivideByZero ==
    DivideAccepted =>
        /\ raised = "none"
        /\ \A r \in 1..Height(df) :
              LET num == NumberAfterCoercion(Cell(df, target_cols[1], r))
                  den == NumberAfterCoercion(Cell(df, target_cols[2], r))
                  out == Cell(returned, new_col_name, r)
              IN IF den = 0
                 THEN out = Null
                 ELSE /\ out.t = "ratio"
                      /\ out.d > 0
                      /\ out.n * den = num * out.d

\* a divide has returned, and its one row has text that is no number as the
\* denominator and a missing value in the new column
C14_Witness ==
    /\ DivideAccepted
    /\ raised = "none"
    /\ Height(df) = 1
    /\ Cell(df, target_cols[2], 1).t = "str"
    /\ NumberAfterCoercion(Cell(df, target_cols[2], 1)) = 0
    /\ Cell(df, target_cols[1], 1) = Num(6)
    /\ Cell(returned, new_col_name, 1) = Null
RECURSIVE CoercedSum(_, _)
\* the sum of the coerced values of row r of the input over the named columns
CoercedSum(names, r) ==
    IF names = <<>> THEN 0
    ELSE NumberAfterCoercion(Cell(df, Head(names), r)) + CoercedSum(Tail(names), r)

RECURSIVE CoercedProduct(_, _)
\* the product of the coerced values of row r of the input over the named columns
CoercedProduct(names, r) ==
    IF names = <<>> THEN 1
    ELSE NumberAfterCoercion(Cell(df, Head(names), r)) * CoercedProduct(Tail(names), r)

SumOrMultiplyAccepted ==
    /\ GenDone
    /\ operation \in {"sum", "multiply"}
    /\ target_cols # <<>>
    /\ ~SomeTargetMissing
    /\ ~InSeq(new_col_name, df.columns)

\* C15: a sum (multiply) over a non-empty list of present columns returns, in
\* every row of the new column, the sum (product) of that row's target values
\* after coercion: text holding a number is parsed, other text and missing
\* values count as 0
C15_SumAndMultiply ==
    SumOrMultiplyAccepted =>
        /\ raised = "none"
        /\ \A r \in 1..Height(df) :
              Cell(returned, new_col_name, r) =
                  Num(IF operation = "sum" THEN CoercedSum(target_cols, r)
                                           ELSE CoercedProduct(target_cols, r))

\* a sum over a numeric column holding 6 and a text column holding "5" has
\* returned 11
C15_Witness ==
    /\ SumOrMultiplyAccepted
    /\ operation = "sum"
    /\ Height(df) = 1
    /\ target_cols = <<ColA, ColT>>
    /\ Cell(df, ColA, 1) = Num(6)
    /\ Cell(df, ColT, 1) = Str(<<"5">>)
    /\ Cell(returned, new_col_name, 1) = Num(11)
\* the returned table has the input's column names in their order, then the
\* new name, and as many rows as the input
SameShapePlusOne ==
    /\ returned.columns = df.columns \o <<new_col_name>>
    /\ Height(returned) = Height(df)

\* C16: no step changes the caller's input table, and a successful call
\* returns a table whose columns are the input's columns in their order
\* followed by the new column as the last one, with as many rows as the input,
\* each row holding one cell per column
C16_OutputStructure ==
    /\ [][df' = df]_vars
    /\ [](GenSucceeded =>
            /\ SameShapePlusOne
            /\ returned.columns[Len(returned.columns)] = new_col_name
            /\ \A r \in 1..Height(returned) :
                  Len(returned.rows[r]) = Len(df.columns) + 1)

\* a sum over two columns of a one-row table has returned one row under
\* the three input columns followed by the new one
C16_Witness ==
    /\ GenSucceeded
    /\ Height(df) = 1
    /\ Height(returned) = 1
    /\ operation = "sum"
    /\ target_cols = <<ColB, ColA>>
    /\ returned.columns = <<ColA, ColB, ColT, ColN>>

\* C28: in the table a successful call returns, every original column, the
\* target columns included, holds the values it holds in the input, text
\* staying text and missing staying missing; only the new column is added
C28_OriginalColumnsKept ==
    GenSucceeded =>
        /\ SameShapePlusOne
        /\ \A r \in 1..Height(df) : \A c \in 1..Len(df.columns) :
              returned.rows[r][c] = df.rows[r][c]

\* what does hold: a column that is not a target keeps its values, and a
\* target column holds its values coerced to numbers
C28_TargetsCoerced ==
    GenSucceeded =>
        \A r \in 1..Height(df) : \A c \in 1..Len(df.columns) :
            returned.rows[r][c] =
                IF InSeq(df.columns[c], target_cols)
                THEN Num(NumberAfterCoercion(df.rows[r][c]))
                ELSE df.rows[r][c]
----------------------------------------------------------------------------
(* Properties of convert_rate_to_monthly_si                                *)

ConvDone == pc = "conv_done"

IsDot(c) == c = "."

IsSlash(c) == c = "/"

\* texts that cannot be a rate whatever else they hold: no digit, no slash,
\* or more than one dot
SurelyMalformed(chars) ==
    \/ SelectSeq(chars, IsDigit) = <<>>
    \/ SelectSeq(chars, IsSlash) = <<>>
    \/ Len(SelectSeq(chars, IsDot)) > 1

\* the text parsed, and the registry does not define its unit
UnitNotConverted ==
    /\ parsed # <<>>
    /\ Registry(NormalizedUnit(parsed[1].unit)) = <<>>

EndsWith(chars, suffix) ==
    /\ Len(chars) >= Len(suffix)
    /\ SubSeq(chars, Len(chars) - Len(suffix) + 1, Len(chars)) = suffix

SiUnits == {<<"m", "e", "t", "e", "r">>, <<"l", "i", "t", "e", "r">>, <<"k", "i", "l", "o", "g", "r", "a", "m">>}

----------------------------------------------------------------------------
(* Properties of the stockpile walk: the running stockpile                  *)

\* the walk has appended at least one period
SomePeriodDone == results # <<>>

LastPeriod == results[Len(results)]

\* C21: for a non-negative reported series and a positive capacity the
\* stockpile is 0 when the walk starts and is never below 0, after an observed
\* period as after a synthesized one
C21_StockpileNonNegative ==
    (NonNegative(monthly_data) /\ threshold > 0)
        => /\ stockpile >= 0
           /\ (results = <<>>) => stockpile = 0

\* a depletion under way: two periods synthesized and stock still left
C21_Witness ==
    /\ NonNegative(monthly_data)
    /\ threshold > 0
    /\ pc = "walk_deplete"
    /\ iteration_count = 2
    /\ stockpile > 0
    /\ \E i \in 1..Len(monthly_data) :
          /\ results[i].reported_quantity < threshold
          /\ results[i].actual_quantity > results[i].reported_quantity

\* C25: after every period of the walk, observed or synthesized, the reported
\* quantities so far sum to the actual quantities so far plus the stockpile,
\* and for a non-negative series the actual sum is at most the reported sum
C25_StepwiseBalance ==
    /\ SumReported(results) = SumActual(results) + stockpile
    /\ NonNegative(monthly_data) => SumActual(results) <= SumReported(results)

\* mid-walk, with stock held back: observed periods remain and the actual sum
\* is below the reported sum
C25_Witness ==
    /\ pc = "walk_observe"
    /\ idx = 3
    /\ idx <= Len(source_df)
    /\ NonNegative(monthly_data)
    /\ stockpile > 0
    /\ SumActual(results) < SumReported(results)

----------------------------------------------------------------------------
(* Properties of the stockpile walk: the synthesized periods               *)

\* months counted from year 0, and the YYYY-MM label of such a count
MonthNumber(label) ==
    (DigitVal(label[1]) * 1000 + DigitVal(label[2]) * 100
        + DigitVal(label[3]) * 10 + DigitVal(label[4])) * 12
      + (DigitVal(label[6]) * 10 + DigitVal(label[7])) - 1

LabelOfMonthNumber(m) ==
    LET y == m \div 12
        mo == (m % 12) + 1
    IN <<Digit(y \div 1000), Digit((y \div 100) % 10), Digit((y \div 10) % 10),
         Digit(y % 10), "-", Digit(mo \div 10), Digit(mo % 10)>>

\* the latest period of the input series
LastObservedMonth ==
    CHOOSE m \in {MonthNumber(monthly_data[i].month) : i \in 1..Len(monthly_data)} :
        \A i \in 1..Len(monthly_data) : MonthNumber(monthly_data[i].month) <= m

\* the walk ended with a stockpile after the last observed period that is
\* positive and at most 120 capacities
DepletedWithinLimit ==
    /\ pc = "walk_done"
    /\ monthly_data # <<>>
    /\ LeftAfterObserved > 0
    /\ LeftAfterObserved <= DepletionLimit * threshold

\* C22: when the stockpile S left after the last observed period is positive
\* and at most 120 capacities, the synthesized periods are the consecutive
\* calendar months after the last observed one, labelled YYYY-MM across year
\* ends; each reports 0 and releases min(stock left, capacity); the walk stops
\* when the stock is exactly zero, so only the last one can be below capacity
C22_DepletionSequence ==
    DepletedWithinLimit =>
        LET n == Len(monthly_data)
            k == Len(returned) - n
        IN /\ k >= 1
           /\ stockpile = 0
           /\ (k - 1) * threshold < LeftAfterObserved
           /\ LeftAfterObserved <= k * threshold
           /\ \A j \in 1..k :
                 /\ returned[n + j].month = LabelOfMonthNumber(LastObservedMonth + j)
                 /\ returned[n + j].reported_quantity = 0
                 /\ returned[n + j].actual_quantity =
                        Min(LeftAfterObserved - (j - 1) * threshold, threshold)
                 /\ (j < k) => returned[n + j].actual_quantity = threshold

\* a series given in reverse order and ending in 2025-12 was followed by
\* 2026-01 and 2026-02
C22_Witness ==
    /\ DepletedWithinLimit
    /\ Len(monthly_data) = 2
    /\ monthly_data[1].month = <<"2", "0", "2", "5", "-", "1", "2">>
    /\ Len(returned) = Len(monthly_data) + 2
    /\ returned[Len(returned) - 1].month = <<"2", "0", "2", "6", "-", "0", "1">>
    /\ returned[Len(returned)].month = <<"2", "0", "2", "6", "-", "0", "2">>
----------------------------------------------------------------------------
(* Properties of smooth_data_with_stockpile: the reassembled table         *)

\* the call returned a table built from the results of at least one group
SmoothReassembled ==
    pc = "smooth_done" /\ raised = "none" /\ all_results # <<>>

\* the period columns of the returned table
ReturnedPeriods ==
    SubSeq(returned.columns, Len(grouping_cols) + 1, Len(returned.columns))

\* the entries of the long results for a group and a period
EntriesOf(group, month) ==
    {i \in 1..Len(all_results) :
        all_results[i].group = group /\ all_results[i].month = month}

\* C23: the returned table has the grouping columns and then, in chronological
\* order, exactly the periods produced by the retained groups, observed and
\* synthesized; a group produces a period at most once; a group's row holds
\* its actual quantity for a period it produced and 0, never a missing value,
\* for a period only other groups produced
C23_Reassembly ==
    SmoothReassembled =>
        /\ SubSeq(returned.columns, 1, Len(grouping_cols)) = grouping_cols
        /\ {ReturnedPeriods[i] : i \in 1..Len(ReturnedPeriods)}
              = {all_results[i].month : i \in 1..Len(all_results)}
        /\ \A i, j \in 1..Len(ReturnedPeriods) :
              (i < j) => MonthNumber(ReturnedPeriods[i]) < MonthNumber(ReturnedPeriods[j])
        /\ \A i, j \in 1..Len(all_results) :
              (all_results[i].group = all_results[j].group
                  /\ all_results[i].month = all_results[j].month) => i = j
        /\ \A q \in 1..Height(returned) : \A c \in 1..Len(ReturnedPeriods) :
              LET made == EntriesOf(GroupValues(returned, grouping_cols, q),
                                    ReturnedPeriods[c])
                  cell == Cell(returned, ReturnedPeriods[c], q)
              IN IF made = {} THEN cell = Num(0)
                 ELSE \A i \in made : cell = Num(all_results[i].actual_quantity)

\* two groups were retained, and one of them has a 0 in a period that was
\* synthesized only for the other
C23_Witness ==
    /\ SmoothReassembled
    /\ Height(returned) = 2
    /\ \E q \in 1..2 : \E c \in 1..Len(ReturnedPeriods) :
          /\ ~InSeq(ReturnedPeriods[c], df.columns)
          /\ EntriesOf(GroupValues(returned, grouping_cols, q), ReturnedPeriods[c]) = {}
          /\ EntriesOf(GroupValues(returned, grouping_cols, 3 - q), ReturnedPeriods[c]) # {}
          /\ Cell(returned, ReturnedPeriods[c], q) = Num(0)
----------------------------------------------------------------------------
(* Properties of smooth_data_with_stockpile: a second application          *)

\* no period cell of the input is negative
NonNegativeTable ==
    \A r \in 1..Height(df) : \A i \in 1..Len(MonthCols(df, grouping_cols)) :
        ReportedOf(Cell(df, MonthCols(df, grouping_cols)[i], r)) >= 0

\* every value of row r of the input is within the capacity
WithinCapacityRow(r) ==
    \A i \in 1..Len(MonthCols(df, grouping_cols)) :
        ReportedOf(Cell(df, MonthCols(df, grouping_cols)[i], r)) <= threshold

SmoothedOnce == pc = "smooth_done" /\ raised = "none" /\ NonNegativeTable

----------------------------------------------------------------------------
(* Properties: aggregate_data followed by smooth_data_with_stockpile       *)

\* the smoothing of a table returned by aggregate_data has ended
AggSmoothDone == pc = "smooth_done" /\ InSeq(ColID, df.columns)

\* the columns the smoothing reads as the reported series are exactly the
\* YYYY-MM period columns of its input
SeriesIsPeriodColumns ==
    MonthCols(df, grouping_cols) = Sorted(MonthColumnsOf(df.columns))

\* C29: smooth_data_with_stockpile applied directly to any table returned
\* by aggregate_data, also one that carries the ID column and a
\* representative rate column, completes without error and reads exactly
\* the YYYY-MM period columns as the reported series; the rate column is
\* never read as a period.
C29_AggregateComposes ==
    AggSmoothDone => raised = "none" /\ SeriesIsPeriodColumns

\* C29, the part that holds: a returned table without a rate column is
\* smoothed without error, the ID column left out of the series
C29_ComposesWithoutRate ==
    AggSmoothDone /\ ~InSeq(ColRate, df.columns)
        => raised = "none" /\ SeriesIsPeriodColumns

\* C29: a returned table with ID, a rate column and a positive period value
\* was passed to the smoothing
C29_Witness ==
    /\ AggSmoothDone
    /\ InSeq(ColRate, df.columns)
    /\ \E r \in 1..Height(df) : \E c \in 1..Len(df.columns) :
          IsMonthColumn(df.columns[c]) /\ df.rows[r][c].t = "num"
              /\ df.rows[r][c].n > 0
----------------------------------------------------------------------------
(* Properties of TransformationStage                                      *)

\* the stage is waiting for the next callback
TransIdle == pc = "trans_idle"

RECURSIVE AppliedInOrder(_, _)
\* the original table with every transformation of the list applied, the
\* first one first
AppliedInOrder(original, list) ==
    IF list = <<>> THEN original
    ELSE LET before == AppliedInOrder(original, SubSeq(list, 1, Len(list) - 1))
             last == list[Len(list)]
         IN GenerateNewColumn(before, last.targets, last.new_col, last.op)

\* every transformation of the list applies to the table built so far
EveryOneApplies ==
    \A i \in 1..Len(transformations) :
        ~GenerateRaises(AppliedInOrder(df, SubSeq(transformations, 1, i - 1)),
                        transformations[i].targets, transformations[i].new_col,
                        transformations[i].op)

\* the tree view holds the entries of the list, in the order of the list
TreeMirrorsList ==
    /\ Len(tree) = Len(transformations)
    /\ \A i \in 1..Len(tree) :
          /\ tree[i][1] = transformations[i].new_col
          /\ tree[i][2] = transformations[i].op
          /\ tree[i][3] = JoinComma(transformations[i].targets)

\* each transformation removed and reported as failed is the one that raised
RevertedTheFailing ==
    \A k \in 1..Len(reverted) : reverted[k].bad_transform = reverted[k].e

\* C30: after any sequence of add and remove operations, transformed_df is
\* the original table with every transformation of the list applied in list
\* order, the list and the tree view hold the same entries in the same
\* order, and when re-applying fails the transformation removed and
\* reported as failed is the one that failed to apply, while every
\* transformation that applies is kept.
C30_TransformationList ==
    /\ [](TransIdle =>
             /\ EveryOneApplies
             /\ transformed_df = AppliedInOrder(df, transformations)
             /\ TreeMirrorsList
             /\ RevertedTheFailing)
    /\ [][TransIdle /\ reverted' # <<>> =>
             /\ Len(reverted') = 1
             /\ transformations' = transformations]_vars

\* C30: with one transformation in the list, a second one failed to apply and
\* was reverted, the first one staying applied
C30_Witness ==
    /\ TransIdle
    /\ Len(transformations) = 1
    /\ Len(tree) = 1
    /\ reverted # <<>>
    /\ reverted[1].bad_transform.new_col = transformations[1].new_col
    /\ reverted[1].bad_transform # transformations[1]
    /\ InSeq(transformations[1].new_col, transformed_df.columns)

====
